---- MODULE Spec2Model ----
(***************************************************************************)
(* Webmention protocol engine of feathers-studio/hyperweb: the Receiver    *)
(* (src/app/receiver.ts), the Sender with its endpoint discovery           *)
(* (src/app/sender.ts), the extension registry and the domain matcher      *)
(* (src/app/util.ts).                                                      *)
(*                                                                         *)
(* Strings the code inspects character by character are sequences of       *)
(* one-character strings; a URL string is the record of its written parts  *)
(* (RawURL) and the WHATWG parser is ParseRaw, which normalises it.        *)
(***************************************************************************)
EXTENDS Integers, Sequences, FiniteSets, TLC

VARIABLES
    \* ---- Receiver (one inbound request) ----
    options,      \* the options object given to Receiver(storage, options)
    request,      \* the inbound Request: method, body, Content-Type, form fields
    pc,           \* position of the receiver coroutine
    mention,      \* Object.fromEntries(body.entries())
    source,       \* parsed source URL
    target,       \* parsed target URL
    fetches,      \* outbound fetch() calls issued by the receiver, in order
    fetched,      \* the Response of the source fetch
    response,     \* the Response the receiver returned
    inserted,     \* calls of storage.insert, in order
    deleted,      \* calls of storage.delete, in order
    checks,       \* how each call of checkCustomContentTypeBody settled, in order
    \* ---- Sender (one sendWebmention call) ----
    sopts,        \* crossOriginPolicy, allowedOrigins
    call,         \* the arguments (source, target) of sendWebmention
    spc,          \* position of the sender coroutine
    net,          \* what the remote servers answer (HEAD, GET, POST)
    sent,         \* outbound HTTP requests issued by the sender, in order
    discovery,    \* result of discoverWebmentionEndpoint
    result,       \* the WebmentionResponse sendWebmention resolved to
    \* ---- Library functions called on their own ----
    registry,     \* a call of parseExtension, and of reparseExtension on its result
    matcher,      \* a call of matchDomain
    \* ---- Storage (the SQLite table behind Storage) ----
    webmentions,  \* the rows of table webmentions
    sequence,     \* the largest id AUTOINCREMENT has handed out
    clock,        \* CURRENT_TIMESTAMP
    storage,      \* the call of a Storage method that is being served
    \* ---- Concurrent requests of one Receiver ----
    parked        \* the locals of a receiver invocation suspended at an await

rvars == <<options, request, pc, mention, source, target, fetches, fetched,
           response, inserted, deleted, checks>>
svars == <<sopts, call, spc, net, sent, discovery, result>>
uvars == <<registry, matcher>>
dvars == <<webmentions, sequence, clock, storage>>
cvars == <<parked>>
vars == <<rvars, svars, uvars, dvars, cvars>>

-----------------------------------------------------------------------------
\* Bounds of the model

\* longest HTML document (in tags), JSON array/object (in members) and
\* plain-text body (in words) a fetched source may have
MaxDoc == 2

\* longest Link header, in comma-separated links
MaxLinks == 2

-----------------------------------------------------------------------------
\* Characters and strings

LowerChar(c) ==
    CASE c = "A" -> "a"
      [] c = "B" -> "b"
      [] c = "C" -> "c"
      [] c = "X" -> "x"
      [] OTHER -> c

toLowerCase(s) == [i \in 1..Len(s) |-> LowerChar(s[i])]

RECURSIVE split(_, _)
split(s, sep) ==
    IF \E i \in 1..Len(s) : s[i] = sep
    THEN LET i == CHOOSE j \in 1..Len(s) :
                      s[j] = sep /\ \A k \in 1..(j - 1) : s[k] # sep
         IN <<SubSeq(s, 1, i - 1)>> \o split(SubSeq(s, i + 1, Len(s)), sep)
    ELSE <<s>>

\* needle at the start of text only
includesAtStart(text, needle) ==
    Len(needle) <= Len(text) /\ SubSeq(text, 1, Len(needle)) = needle

includes(text, needle) ==
    \E i \in 0..(Len(text) - Len(needle)) :
        SubSeq(text, i + 1, i + Len(needle)) = needle

-----------------------------------------------------------------------------
\* URLs.  A RawURL is a URL string as written; ParseRaw is `new URL(s)`.

NoRaw == [scheme |-> "", host |-> <<>>, port |-> "", path |-> <<>>]

Raw(scheme, host, port, path) ==
    [scheme |-> scheme, host |-> host, port |-> port, path |-> path]

LowerScheme(s) ==
    CASE s = "HTTPS" -> "https"
      [] s = "HTTP" -> "http"
      [] OTHER -> s

DefaultPort(protocol) ==
    CASE protocol = "https:" -> "443"
      [] protocol = "http:" -> "80"
      [] protocol = "ftp:" -> "21"
      [] OTHER -> ""

\* The characters of a URL string as written
RawText(r) ==
    <<r.scheme \o ":", "//">> \o r.host
        \o (IF r.port = "" THEN <<>> ELSE <<":", r.port>>) \o r.path

\* new URL(s): scheme and host are lower-cased, a default port is dropped,
\* an empty path becomes "/"
ParseRaw(r) ==
    LET protocol == LowerScheme(r.scheme) \o ":"
    IN [protocol |-> protocol,
        hostname |-> toLowerCase(r.host),
        port |-> IF r.port = DefaultPort(protocol) THEN "" ELSE r.port,
        pathname |-> IF r.path = <<>> THEN <<"/">> ELSE r.path]

NoURL == [protocol |-> "", hostname |-> <<>>, port |-> "", pathname |-> <<>>]

\* URL.host: the hostname, and the port when it is not the default one
URLhost(u) ==
    u.hostname \o (IF u.port = "" THEN <<>> ELSE <<":", u.port>>)

\* URL.href: the serialisation of the parsed URL
href(u) ==
    <<u.protocol, "//">> \o u.hostname
        \o (IF u.port = "" THEN <<>> ELSE <<":", u.port>>) \o u.pathname

-----------------------------------------------------------------------------
\* src/app/util.ts: matchDomain

RegexSpecial == {".", "+", "?", "^", "$", "{", "}", "(", ")", "|", "[", "]", "\\"}

\* The pattern taken as a regex source as it is, nothing escaped
escapeNothing(pattern) ==
    [i \in 1..Len(pattern) |-> [c |-> pattern[i], esc |-> FALSE]]

\* pattern.replace(/[.+?^${}()|[\]\\]/g, "\\$&"): a regex source, one item
\* per character of the pattern; esc marks a character preceded by "\"
escapePattern(pattern) ==
    [i \in 1..Len(pattern) |->
        [c |-> pattern[i], esc |-> pattern[i] \in RegexSpecial]]

\* regex.test(s) for the source "^" + escaped.replace(/\*/g, ".*?") + "$":
\* an escaped character is itself, an unescaped "*" is ".*?", an unescaped
\* "." is any character
RECURSIVE regexTest(_, _)
regexTest(re, s) ==
    IF re = <<>> THEN s = <<>>
    ELSE LET item == Head(re)
         IN IF ~item.esc /\ item.c = "*"
            THEN \E k \in 0..Len(s) : regexTest(Tail(re), SubSeq(s, k + 1, Len(s)))
            ELSE /\ s # <<>>
                 /\ \/ ~item.esc /\ item.c = "."
                    \/ Head(s) = item.c
                 /\ regexTest(Tail(re), Tail(s))

matchDomain(pattern, domain) ==
    IF pattern = domain THEN TRUE
    ELSE regexTest(escapePattern(toLowerCase(pattern)), toLowerCase(domain))

-----------------------------------------------------------------------------
\* Form values (FormDataEntryValue) and JSON values

\* A form value: absent, a File, or a string (empty, not a URL, or a URL)
FormNone == [k |-> "none", raw |-> NoRaw]
FormFile == [k |-> "file", raw |-> NoRaw]
FormEmpty == [k |-> "empty", raw |-> NoRaw]
FormGarbage == [k |-> "garbage", raw |-> NoRaw]
FormURL(r) == [k |-> "url", raw |-> r]

\* `!url`
Falsy(v) == v.k \in {"none", "empty"}

JUndef == [t |-> "undefined", v |-> <<>>]
JNull == [t |-> "null", v |-> <<>>]
JNum == [t |-> "number", v |-> <<>>]
JStr(s) == [t |-> "string", v |-> s]
JArr(items) == [t |-> "array", v |-> items]
JObj(members) == [t |-> "object", v |-> members]

\* src/app/util.ts:1 and src/app/receiver.ts:26
isObject(val) == val.t \in {"array", "object"}

-----------------------------------------------------------------------------
\* src/app/util.ts:3 Err, a Response with a status

Resp(status, msg) == [status |-> status, msg |-> msg]
Err(msg, status) == Resp(status, msg)
NoResponse == Resp(0, <<>>)

-----------------------------------------------------------------------------
\* src/app/receiver.ts: parseURL

ParsedURL(u) == [err |-> FALSE, url |-> u, res |-> NoResponse]
ParseErr(e) == [err |-> TRUE, url |-> NoURL, res |-> e]

\* parseURL without the protocol check (as in the receiver's first version)
parseURLAnyProtocol(url, name, accepted) ==
    IF Falsy(url) THEN ParseErr(Err(<<"Missing ", name, " URL">>, 400))
    ELSE IF url.k = "file" THEN ParseErr(Err(<<name, " is not a string">>, 400))
    ELSE IF url.k = "garbage" THEN ParseErr(Err(<<"Invalid ", name, " URL">>, 400))
    ELSE ParsedURL(ParseRaw(url.raw))

parseURL(url, name, acceptedProtocols) ==
    IF Falsy(url) THEN ParseErr(Err(<<"Missing ", name, " URL">>, 400))
    ELSE IF url.k = "file" THEN ParseErr(Err(<<name, " is not a string">>, 400))
    ELSE IF url.k = "garbage" THEN ParseErr(Err(<<"Invalid ", name, " URL">>, 400))
    ELSE LET u == ParseRaw(url.raw)
         IN IF u.protocol \notin acceptedProtocols
            THEN ParseErr(Err(<<"Unsupported ", name, " protocol">>, 400))
            ELSE ParsedURL(u)

-----------------------------------------------------------------------------
\* src/app/util.ts: the extension registry

\* enum ExtensionKind
Unknown == 0
Basic == 1
Like == 2
Comment == 3

LikeDefinition == "https://webmention.feathers.studio/like/1.0/"
CommentDefinition == "https://webmention.feathers.studio/comment/1.0/"

\* The own keys of `extensions`
extensions == {LikeDefinition, CommentDefinition}

extensionKind(definition) ==
    IF definition = LikeDefinition THEN Like ELSE Comment

\* Keys every object literal inherits from Object.prototype: `key in extensions`
\* is true for them, and extensions[key] is not an extension
ObjectPrototypeKeys == {"constructor", "toString", "__proto__"}

\* A string form field, or its absence (undefined)
NoField == [k |-> "none", s |-> ""]
Field(s) == [k |-> "str", s |-> s]

\* `definition in extensions`: the key is looked up along the prototype chain
inExtensions(definition) ==
    /\ definition.k = "str"
    /\ definition.s \in extensions \cup ObjectPrototypeKeys

\* JSON.parse that yields null for a text that is not JSON
JSONparseLenient(payload) ==
    IF payload.k = "none" THEN [ok |-> TRUE, val |-> JNull]
    ELSE CASE payload.s = "{}" -> [ok |-> TRUE, val |-> JObj(<<>>)]
           [] payload.s = "{\"a\":1}" -> [ok |-> TRUE, val |-> JObj(<<JNum>>)]
           [] payload.s = "1" -> [ok |-> TRUE, val |-> JNum]
           [] OTHER -> [ok |-> TRUE, val |-> JNull]

\* JSON.parse(mention.payload ?? null)
JSONparse(payload) ==
    IF payload.k = "none" THEN [ok |-> TRUE, val |-> JNull]
    ELSE CASE payload.s = "null" -> [ok |-> TRUE, val |-> JNull]
           [] payload.s = "{}" -> [ok |-> TRUE, val |-> JObj(<<>>)]
           [] payload.s = "{\"a\":1}" -> [ok |-> TRUE, val |-> JObj(<<JNum>>)]
           [] payload.s = "1" -> [ok |-> TRUE, val |-> JNum]
           [] OTHER -> [ok |-> FALSE, val |-> JUndef]

\* A schema that every value satisfies
anySafeParse(parsed) == TRUE

\* const empty = z.null().or(z.undefined()).or(z.object({}).strict())
emptySafeParse(parsed) ==
    parsed \in {JNull, JUndef, JObj(<<>>)}

\* A ParsedWebmention, an Err, or a thrown exception.  For kind Unknown the
\* fields definition and payload are payload.definition and payload.payload.
Parsed(m, kind, definition, payload) ==
    [tag |-> "ok", source |-> m.source, target |-> m.target, kind |-> kind,
     definition |-> definition, payload |-> payload, res |-> NoResponse]
ParseFailed(e) ==
    [tag |-> "err", source |-> FormNone, target |-> FormNone, kind |-> Unknown,
     definition |-> "", payload |-> JUndef, res |-> e]
ParseThrew ==
    [tag |-> "throw", source |-> FormNone, target |-> FormNone, kind |-> Unknown,
     definition |-> "", payload |-> JUndef, res |-> NoResponse]

parseExtension(m) ==
    LET definition == m.definition
        parsed == JSONparse(m.payload)
    IN IF ~parsed.ok THEN ParseFailed(Err(<<"Payload is not valid JSON">>, 400))
       ELSE IF inExtensions(definition)
       THEN IF definition.s \notin extensions
            THEN ParseThrew  \* extension.payload is undefined: TypeError
            ELSE IF ~emptySafeParse(parsed.val)
            THEN ParseFailed(Err(<<"Payload is not valid">>, 400))
            ELSE Parsed(m, extensionKind(definition.s), "", parsed.val)
       ELSE IF definition.k = "str" /\ definition.s # ""
       THEN Parsed(m, Unknown, definition.s, parsed.val)
       ELSE IF m.payload.k = "str" /\ m.payload.s # ""
            THEN ParseFailed(
                     Err(<<"Payload is not allowed without a definition field">>, 400))
            ELSE Parsed(m, Basic, "", JNull)

\* A NormalisedWebmention, or an Err
Normalised(w, definition, payload) ==
    [tag |-> "ok", source |-> w.source, target |-> w.target,
     definition |-> definition, payload |-> payload, res |-> NoResponse]
ReparseFailed(e) ==
    [tag |-> "err", source |-> FormNone, target |-> FormNone,
     definition |-> "", payload |-> JUndef, res |-> e]

\* src/unnamed/part_003: the registry of the mentions package has a third
\* definition, and its parseExtension takes banUnknownExtensions; its result
\* carries the definition in place of a kind ("" and JUndef: no such field)
MentionDefinition == "https://webmention.feathers.studio/mention/1.0/"

parseExtensionPackage(m, banUnknownExtensions) ==
    LET definition == m.definition
        parsed == JSONparse(m.payload)
        registered == {MentionDefinition, LikeDefinition, CommentDefinition}
    IN IF ~parsed.ok THEN ParseFailed(Err(<<"Payload is not valid JSON">>, 400))
       ELSE IF definition.k = "str" /\ definition.s \in registered \cup ObjectPrototypeKeys
       THEN IF definition.s \notin registered
            THEN ParseThrew  \* extension.payload is undefined: TypeError
            ELSE IF ~emptySafeParse(parsed.val)
            THEN ParseFailed(Err(<<"Payload is not valid">>, 400))
            ELSE Normalised(m, definition.s, parsed.val)
       ELSE IF definition.k = "str" /\ definition.s # ""
       THEN IF banUnknownExtensions
            THEN ParseFailed(Err(<<"Webmention extension ", definition.s,
                                   " is not supported by this receiver">>, 400))
            ELSE Normalised(m, definition.s, parsed.val)
       ELSE IF m.payload.k = "str" /\ m.payload.s # ""
            THEN ParseFailed(
                     Err(<<"Payload is not allowed without a definition field">>, 400))
            ELSE Normalised(m, "", JUndef)

\* src/app/util.ts:101-103: the definition of the extension registered under
\* a kind; "" is undefined, for a kind no extension has
extensionFromKind(kind) ==
    IF \E d \in extensions : extensionKind(d) = kind
    THEN CHOOSE d \in extensions : extensionKind(d) = kind
    ELSE ""

\* reparseExtension with one definition for every registered kind
reparseExtensionAsComment(webmention) ==
    IF webmention.kind = Unknown
    THEN Normalised(webmention, webmention.definition, webmention.payload)
    ELSE Normalised(webmention, CommentDefinition, webmention.payload)

\* src/app/util.ts:173-192
reparseExtension(webmention) ==
    LET definition == extensionFromKind(webmention.kind)
    IN IF definition = ""
       THEN ReparseFailed(Err(<<"Invalid webmention kind">>, 400))
       ELSE IF webmention.kind = Unknown
       THEN Normalised(webmention, webmention.definition, webmention.payload)
       ELSE Normalised(webmention, definition, webmention.payload)

-----------------------------------------------------------------------------
\* The inputs of the receiver

HostBC == <<"b", ".", "c">>
HostABC == <<"a", ".", "b", ".", "c">>
HostXC == <<"x", ".", "c">>
PathP == <<"/", "p">>

RawA == Raw("https", HostBC, "", PathP)
\* the same URL written differently: upper case and an explicit default port
RawA2 == Raw("HTTPS", <<"B", ".", "C">>, "443", PathP)
RawB == Raw("https", HostABC, "", <<>>)
RawF == Raw("ftp", HostBC, "", PathP)
\* a longer URL that has RawA's text as a prefix
RawAq == Raw("https", HostBC, "", <<"/", "p", "q">>)

\* What a urlencoded body can carry in a URL field (never a File)
URLFields ==
    {FormNone, FormEmpty, FormGarbage} \cup {FormURL(r) : r \in {RawA, RawA2, RawB, RawF}}

DefinitionFields ==
    {NoField, Field(LikeDefinition), Field(CommentDefinition),
     Field("https://example.org/rsvp"), Field("constructor")}

PayloadFields ==
    {NoField, Field("{}"), Field("{\"a\":1}"), Field("{bad")}

FormContentType == "application/x-www-form-urlencoded"

\* "": the request has no Content-Type header
ContentTypeHeaders ==
    {FormContentType, "application/x-www-form-urlencoded; charset=utf-8", ""}

Forms ==
    [source : URLFields, target : URLFields,
     definition : DefinitionFields, payload : PayloadFields]

\* bodyNull: request.body === null
Requests ==
    [method : {"POST", "GET"}, bodyNull : BOOLEAN,
     contentType : ContentTypeHeaders, form : Forms]

\* An option of the options object: given, or left out
Given(v) == [set |-> TRUE, val |-> v]
NotGiven(v) == [set |-> FALSE, val |-> v]

DefaultOptions ==
    [requireAttribute |-> NotGiven(""),
     acceptedProtocols |-> NotGiven({}),
     acceptedTargetDomains |-> NotGiven(<<>>),
     acceptedContentTypes |-> NotGiven(<<>>),
     checkCustomContentTypeBody |-> FALSE]

OptionsSet ==
    {[DefaultOptions EXCEPT !.acceptedTargetDomains = d,
                            !.checkCustomContentTypeBody = c] :
        d \in {NotGiven(<<>>),
               Given(<<<<"*", ".", "x", ".", "c">>, <<"B", ".", "C">>>>)},
        c \in BOOLEAN}
    \cup {[DefaultOptions EXCEPT !.acceptedProtocols = Given({"ftp:"})],
          [DefaultOptions EXCEPT !.requireAttribute = Given("data-mention")],
          [DefaultOptions EXCEPT !.acceptedContentTypes = Given(<<"application/json">>)]}

\* src/app/receiver.ts:128-132: the defaults
requireAttribute(o) ==
    IF o.requireAttribute.set THEN o.requireAttribute.val ELSE "webmention"
acceptedProtocols(o) ==
    IF o.acceptedProtocols.set THEN o.acceptedProtocols.val ELSE {"http:", "https:"}
acceptedContentTypes(o) ==
    IF o.acceptedContentTypes.set THEN o.acceptedContentTypes.val
    ELSE <<"text/html", "application/json", "text/plain">>

-----------------------------------------------------------------------------
\* Fetched source documents

\* An HTML open tag as htmlparser2 reports it: its name, the names of its
\* attributes, and the values of href and src (<<>> when absent)
Tag(name, attrs, h, sr) == [name |-> name, attrs |-> attrs, href |-> h, src |-> sr]

\* `requireAttribute in attribs`
hasAttribute(tag, attr) == attr \in tag.attrs

DocStrings == {RawText(RawA), RawText(RawB)}

Tags ==
    {Tag("a", {"href", "webmention"}, x, <<>>) : x \in DocStrings}
    \cup {Tag("a", {"href"}, RawText(RawA), <<>>),
          Tag("a", {"href", "data-mention"}, RawText(RawA), <<>>),
          Tag("img", {"src", "webmention"}, <<>>, RawText(RawA)),
          Tag("link", {"href", "src", "webmention"}, RawText(RawA), RawText(RawA))}

SeqsUpTo(S, n) == UNION {[1..k -> S] : k \in 0..n}

HTMLDocs == SeqsUpTo(Tags, MaxDoc)

JSONLeaves == {JStr(RawText(RawA)), JStr(RawText(RawAq)), JNum, JNull}

\* JSON documents: a leaf, or an array or object of leaves and of one-member
\* objects or arrays
JSONDocs ==
    JSONLeaves
    \cup {JArr(m) : m \in SeqsUpTo({JStr(RawText(RawA)), JNum, JObj(<<JStr(RawText(RawA))>>)}, MaxDoc)}
    \cup {JObj(m) : m \in SeqsUpTo({JStr(RawText(RawA)), JNum, JArr(<<JStr(RawText(RawA))>>)}, MaxDoc)}

\* Plain-text bodies: words and URLs, one after the other
TextPieces == {<<"s", "e", "e", " ">>, RawText(RawAq), RawText(RawA2)}

RECURSIVE concat(_)
concat(pieces) ==
    IF pieces = <<>> THEN <<>> ELSE Head(pieces) \o concat(Tail(pieces))

TextDocs == {concat(ps) : ps \in SeqsUpTo(TextPieces, MaxDoc)}

\* The body of a fetched response, as each reader of it sees it.  broken: the
\* body stream fails while it is read, or is not of the declared syntax.
Body(kind, tags, json, text, broken) ==
    [kind |-> kind, tags |-> tags, json |-> json, text |-> text, broken |-> broken]
NoBody == Body("none", <<>>, JUndef, <<>>, FALSE)

FetchResponse(status, contentType, bodyNull, body) ==
    [status |-> status, contentType |-> contentType, bodyNull |-> bodyNull,
     body |-> body]

OKResponses ==
    {FetchResponse(200, ct, TRUE, NoBody) : ct \in {"text/html", ""}}
    \cup {FetchResponse(200, "text/html", FALSE, Body("html", d, JUndef, <<>>, FALSE)) :
             d \in HTMLDocs}
    \cup {FetchResponse(200, "application/json", FALSE, Body("json", <<>>, d, <<>>, FALSE)) :
             d \in JSONDocs}
    \cup {FetchResponse(200, "text/plain", FALSE, Body("text", <<>>, JUndef, d, FALSE)) :
             d \in TextDocs}
    \cup {FetchResponse(200, ct, FALSE, Body("broken", <<>>, JUndef, <<>>, TRUE)) :
             ct \in {"text/html", "application/json", "text/plain"}}
    \cup {FetchResponse(200, ct, FALSE, Body("other", <<>>, JUndef, RawText(RawA), FALSE)) :
             ct \in {"text/html; charset=utf-8", "application/xml", ""}}

FetchResponses ==
    OKResponses
    \cup {FetchResponse(st, "text/html", FALSE, NoBody) : st \in {404, 410, 500}}

NoFetched == FetchResponse(0, "", TRUE, NoBody)

ok(res) == res.status >= 200 /\ res.status <= 299

-----------------------------------------------------------------------------
\* src/app/receiver.ts: the content verifiers

\* onopentag without the test of requireAttribute
tagMentionsUnmarked(tag, t, attr) ==
    \/ tag.name = "a" /\ tag.href = href(t)
    \/ tag.name \in {"img", "audio", "video"} /\ tag.src = href(t)

\* onopentag without the test of <a>
tagMentionsMediaOnly(tag, t, attr) ==
    /\ hasAttribute(tag, attr)
    /\ tag.name \in {"img", "audio", "video"} /\ tag.src = href(t)

\* onopentag of validateHTML: does this tag set `validated`?
tagMentions(tag, t, attr) ==
    /\ hasAttribute(tag, attr)
    /\ \/ tag.name = "a" /\ tag.href = href(t)
       \/ tag.name \in {"img", "audio", "video"} /\ tag.src = href(t)

validateHTML(body, t, attr) ==
    \E i \in 1..Len(body.tags) : tagMentions(body.tags[i], t, attr)

RECURSIVE checkObject(_, _)
checkObject(obj, t) ==
    /\ isObject(obj)
    /\ \E i \in 1..Len(obj.v) :
          IF isObject(obj.v[i]) THEN checkObject(obj.v[i], t)
          ELSE obj.v[i] = JStr(t)

validateJSON(body, t) ==
    LET data == body.json
    IN IF data.t = "array"
       THEN \E i \in 1..Len(data.v) : checkObject(data.v[i], href(t))
       ELSE IF isObject(data) THEN checkObject(data, href(t))
       ELSE FALSE

-----------------------------------------------------------------------------
\* src/app/receiver.ts: Receiver(storage, options), one request

Respond(res) ==
    /\ response' = res
    /\ pc' = "done"

\* The gate with the body checked before the method
GateBodyFirst ==
    /\ pc = "start"
    /\ IF request.bodyNull
       THEN Respond(Resp(400, <<"Request body must not be null">>))
       ELSE IF request.method # "POST"
       THEN Respond(Resp(405, <<"WebMention Request must be POST">>))
       ELSE IF request.contentType # FormContentType
       THEN Respond(Resp(400, <<"Content-Type must be application/x-www-form-urlencoded">>))
       ELSE pc' = "readBody" /\ UNCHANGED response
    /\ UNCHANGED <<options, request, mention, source, target, fetches, fetched,
                   inserted, deleted, checks>>
    /\ UNCHANGED svars
    /\ UNCHANGED <<uvars, dvars, cvars>>

\* lines 135-138: the method, the body and the Content-Type
Gate ==
    /\ pc = "start"
    /\ IF request.method # "POST"
       THEN Respond(Resp(405, <<"WebMention Request must be POST">>))
       ELSE IF request.bodyNull
       THEN Respond(Resp(400, <<"Request body must not be null">>))
       ELSE IF request.contentType # FormContentType
       THEN Respond(Resp(400, <<"Content-Type must be application/x-www-form-urlencoded">>))
       ELSE pc' = "readBody" /\ UNCHANGED response
    /\ UNCHANGED <<options, request, mention, source, target, fetches, fetched,
                   inserted, deleted, checks>>
    /\ UNCHANGED svars
    /\ UNCHANGED <<uvars, dvars, cvars>>

NoMention ==
    [source |-> FormNone, target |-> FormNone, definition |-> NoField,
     payload |-> NoField]

\* lines 140-147: request.text() settles; it rejects when the body cannot be read
ReadBody ==
    /\ pc = "readBody"
    /\ \E readable \in BOOLEAN :
          IF readable
          THEN /\ mention' = request.form
               /\ pc' = "validate"
               /\ UNCHANGED response
          ELSE /\ Respond(Err(<<"Malformed payload. Could not parse request body">>,
                           400))
               /\ UNCHANGED mention
    /\ UNCHANGED <<options, request, source, target, fetches, fetched,
                   inserted, deleted, checks>>
    /\ UNCHANGED svars
    /\ UNCHANGED <<uvars, dvars, cvars>>

\* The allow-list read as "every pattern matches"
domainSupportedByAll(o, t) ==
    IF o.acceptedTargetDomains.set
    THEN \A i \in 1..Len(o.acceptedTargetDomains.val) :
             matchDomain(o.acceptedTargetDomains.val[i], t.hostname)
    ELSE TRUE

\* lines 172-179
domainSupported(o, t) ==
    IF o.acceptedTargetDomains.set
    THEN \E i \in 1..Len(o.acceptedTargetDomains.val) :
             matchDomain(o.acceptedTargetDomains.val[i], t.hostname)
    ELSE TRUE

\* lines 160-163: the extension is parsed only when mention.definition is truthy
extensionChecked(m) == m.definition.k = "str" /\ m.definition.s # ""

\* lines 154-179, what the synchronous checks come to: "fetch" when all pass
validation(o, m) ==
    LET s == parseURL(m.source, "source", acceptedProtocols(o))
        t == parseURL(m.target, "target", acceptedProtocols(o))
        extension == parseExtension(m)
    IN IF s.err THEN [next |-> "done", res |-> s.res]
       ELSE IF t.err THEN [next |-> "done", res |-> t.res]
       ELSE IF extensionChecked(m) /\ extension.tag = "throw"
       THEN [next |-> "threw", res |-> NoResponse]
       ELSE IF extensionChecked(m) /\ extension.tag = "err"
       THEN [next |-> "done", res |-> extension.res]
       ELSE IF href(s.url) = href(t.url)
       THEN [next |-> "done", res |-> Err(<<"Source and target are the same">>, 400)]
       ELSE IF ~domainSupported(o, t.url)
       THEN [next |-> "done",
             res |-> Err(<<"Receiver does not support target domain">>, 400)]
       ELSE [next |-> "fetch", res |-> NoResponse]

\* lines 154-196: the checks made on the parsed form; when all pass, fetch(source.href)
\* is called
Validate ==
    /\ pc = "validate"
    /\ LET s == parseURL(mention.source, "source", acceptedProtocols(options))
           t == parseURL(mention.target, "target", acceptedProtocols(options))
           v == validation(options, mention)
       IN /\ source' = IF s.err THEN source ELSE s.url
          /\ target' = IF s.err \/ t.err THEN target ELSE t.url
          /\ pc' = v.next
          /\ response' = v.res
          /\ fetches' = IF v.next = "fetch"
                        THEN Append(fetches,
                                 [url |-> href(s.url), method |-> "GET",
                                  accept |-> acceptedContentTypes(options)])
                        ELSE fetches
    /\ UNCHANGED <<options, request, mention, fetched, inserted, deleted, checks>>
    /\ UNCHANGED svars
    /\ UNCHANGED <<uvars, dvars, cvars>>

\* lines 188-198: the fetch settles: a response, or a network failure
FetchSource ==
    /\ pc = "fetch"
    /\ \/ /\ Respond(Err(<<"Failed to fetch source">>, 500))
          /\ UNCHANGED fetched
       \/ \E r \in FetchResponses :
             /\ fetched' = r
             /\ pc' = "gotResponse"
             /\ UNCHANGED response
    /\ UNCHANGED <<options, request, mention, source, target, fetches,
                   inserted, deleted, checks>>
    /\ UNCHANGED svars
    /\ UNCHANGED <<uvars, dvars, cvars>>

\* The status check with 410 handled as any other non-2xx status
CheckStatusGoneIsFailure ==
    /\ pc = "gotResponse"
    /\ IF ~ok(fetched)
       THEN Respond(Err(<<"Failed to fetch source: ", ToString(fetched.status)>>, 400))
       ELSE IF fetched.bodyNull
       THEN Respond(Err(<<"source response body is null">>, 400))
       ELSE pc' = "verify" /\ UNCHANGED response
    /\ UNCHANGED <<options, request, mention, source, target, fetches, fetched,
                   inserted, deleted, checks>>
    /\ UNCHANGED svars
    /\ UNCHANGED <<uvars, dvars, cvars>>

\* The status check without the test of the body
CheckStatusNoBodyTest ==
    /\ pc = "gotResponse"
    /\ IF fetched.status = 410
       THEN Respond(Resp(200, <<"Gone. Deleted Webmention">>))
       ELSE IF ~ok(fetched)
       THEN Respond(Err(<<"Failed to fetch source: ", ToString(fetched.status)>>, 400))
       ELSE pc' = "verify" /\ UNCHANGED response
    /\ UNCHANGED <<options, request, mention, source, target, fetches, fetched,
                   inserted, deleted, checks>>
    /\ UNCHANGED svars
    /\ UNCHANGED <<uvars, dvars, cvars>>

\* lines 200-215: 410, a non-2xx status, a null body
CheckStatus ==
    /\ pc = "gotResponse"
    /\ IF fetched.status = 410
       THEN Respond(Resp(200, <<"Gone. Deleted Webmention">>))
       ELSE IF ~ok(fetched)
       THEN Respond(Err(<<"Failed to fetch source: ", ToString(fetched.status)>>, 400))
       ELSE IF fetched.bodyNull
       THEN Respond(Err(<<"source response body is null">>, 400))
       ELSE pc' = "verify" /\ UNCHANGED response
    /\ UNCHANGED <<options, request, mention, source, target, fetches, fetched,
                   inserted, deleted, checks>>
    /\ UNCHANGED svars
    /\ UNCHANGED <<uvars, dvars, cvars>>

\* lines 219-230.  A body stream that fails is piped into the parser, which
\* then never emits "finish": the promise validateHTML awaits never settles.
VerifyHTML ==
    /\ pc = "verify"
    /\ fetched.contentType = "text/html"
    /\ IF fetched.body.broken
       THEN pc' = "stuck" /\ UNCHANGED response
       ELSE IF ~validateHTML(fetched.body, target, requireAttribute(options))
       THEN Respond(Err(<<"HTML body does not contain target">>, 400))
       ELSE Respond(Resp(200, <<"OK">>))
    /\ UNCHANGED <<options, request, mention, source, target, fetches, fetched,
                   inserted, deleted, checks>>
    /\ UNCHANGED svars
    /\ UNCHANGED <<uvars, dvars, cvars>>

\* lines 231-241
VerifyJSON ==
    /\ pc = "verify"
    /\ fetched.contentType = "application/json"
    /\ IF fetched.body.broken
       THEN Respond(Err(<<"Error parsing JSON body">>, 400))
       ELSE IF ~validateJSON(fetched.body, target)
       THEN Respond(Err(<<"JSON body does not contain target">>, 400))
       ELSE Respond(Resp(200, <<"OK">>))
    /\ UNCHANGED <<options, request, mention, source, target, fetches, fetched,
                   inserted, deleted, checks>>
    /\ UNCHANGED svars
    /\ UNCHANGED <<uvars, dvars, cvars>>

\* lines 242-252
VerifyText ==
    /\ pc = "verify"
    /\ fetched.contentType = "text/plain"
    /\ IF fetched.body.broken
       THEN Respond(Err(<<"Error parsing plain text body">>, 400))
       ELSE IF ~includes(fetched.body.text, href(target))
       THEN Respond(Err(<<"Plain text body does not contain target">>, 400))
       ELSE Respond(Resp(200, <<"OK">>))
    /\ UNCHANGED <<options, request, mention, source, target, fetches, fetched,
                   inserted, deleted, checks>>
    /\ UNCHANGED svars
    /\ UNCHANGED <<uvars, dvars, cvars>>

\* The custom check with a rejection of the callback left uncaught
VerifyCustomUncaught ==
    /\ pc = "verify"
    /\ fetched.contentType \notin {"text/html", "application/json", "text/plain"}
    /\ IF ~options.checkCustomContentTypeBody
       THEN /\ Respond(Err(<<"Unsupported content type">>, 400))
            /\ UNCHANGED checks
       ELSE \E check \in {"true", "false", "rejects"} :
               /\ checks' = Append(checks, check)
               /\ IF check = "rejects"
                  THEN pc' = "threw" /\ UNCHANGED response
                  ELSE IF check = "false"
                  THEN Respond(Err(<<fetched.contentType,
                                     " body does not contain target">>, 400))
                  ELSE Respond(Resp(200, <<"OK">>))
    /\ UNCHANGED <<options, request, mention, source, target, fetches, fetched,
                   inserted, deleted>>
    /\ UNCHANGED svars
    /\ UNCHANGED <<uvars, dvars, cvars>>

\* lines 253-272: any other Content-Type goes to the configured callback, which
\* resolves to true or false, or rejects
VerifyCustom ==
    /\ pc = "verify"
    /\ fetched.contentType \notin {"text/html", "application/json", "text/plain"}
    /\ IF ~options.checkCustomContentTypeBody
       THEN /\ Respond(Err(<<"Unsupported content type">>, 400))
            /\ UNCHANGED checks
       ELSE \E check \in {"true", "false", "rejects"} :
               /\ checks' = Append(checks, check)
               /\ IF check = "rejects"
                  THEN Respond(Err(<<"Error checking custom content type body">>, 400))
                  ELSE IF check = "false"
                  THEN Respond(Err(<<fetched.contentType,
                                     " body does not contain target">>, 400))
                  ELSE Respond(Resp(200, <<"OK">>))
    /\ UNCHANGED <<options, request, mention, source, target, fetches, fetched,
                   inserted, deleted>>
    /\ UNCHANGED svars
    /\ UNCHANGED <<uvars, dvars, cvars>>

-----------------------------------------------------------------------------
\* src/app/sender.ts: results

\* A reference to an endpoint as a page gives it: an absolute URL, a path
\* ("/wm"), nothing, or text that `new URL` rejects
AbsRef(r) == [k |-> "abs", raw |-> r]
PathRef(path) == [k |-> "path", raw |-> Raw("", <<>>, "", path)]
BadRef == [k |-> "bad", raw |-> NoRaw]
NoRef == [k |-> "none", raw |-> NoRaw]

\* WebmentionEndpoint.Discovered, WebmentionEndpoint.Error, or a thrown exception
Discovered(endpoint) ==
    [tag |-> "Discovered", endpoint |-> endpoint, message |-> <<>>, code |-> 0]
EndpointError(message, code) ==
    [tag |-> "Error", endpoint |-> NoRef, message |-> message, code |-> code]
Threw == [tag |-> "throw", endpoint |-> NoRef, message |-> <<>>, code |-> 0]
NoEndpoint == [tag |-> "none", endpoint |-> NoRef, message |-> <<>>, code |-> 0]

\* `x ?? y` and `if (x)`: an object is neither nullish nor falsy
nullish(x) == x.tag \in {"null", "undefined"}
truthy(x) == ~nullish(x)

\* A response of the target's server.  failed: fetch() rejected.
\* link: the Link header as its comma-separated links, <<>> when there is none.
\* chunked: every tag of the body reaches the parser in a write of its own.
ServerResponse(status, link, contentType, bodyNull, tags, chunked) ==
    [failed |-> FALSE, status |-> status, link |-> link,
     contentType |-> contentType, bodyNull |-> bodyNull, tags |-> tags,
     chunked |-> chunked]
NetworkFailure ==
    [failed |-> TRUE, status |-> 0, link |-> <<>>, contentType |-> "",
     bodyNull |-> TRUE, tags |-> <<>>, chunked |-> FALSE]
NotAsked ==
    [failed |-> FALSE, status |-> 0, link |-> <<>>, contentType |-> "",
     bodyNull |-> TRUE, tags |-> <<>>, chunked |-> FALSE]

statusText(status) ==
    CASE status = 404 -> <<"Not Found">>
      [] status = 500 -> <<"Internal Server Error">>
      [] OTHER -> <<"">>

\* One link of a Link header: `<ref>; rel="rel"`.  lead: white space precedes
\* the "<", as after ", "
Link(lead, ref, rel) == [lead |-> lead, ref |-> ref, rel |-> rel]

\* lines 37-53
RECURSIVE firstWebmentionLink(_, _)
firstWebmentionLink(links, status) ==
    IF links = <<>>
    THEN EndpointError(<<"No webmention Link header found">>, status)
    ELSE LET link == Head(links)
         IN IF link.lead THEN firstWebmentionLink(Tail(links), status)
            ELSE IF link.rel # "webmention"
            THEN firstWebmentionLink(Tail(links), status)
            ELSE Discovered(link.ref)

tryParseWebmentionLinkHeader(res) ==
    IF res.link = <<>> THEN EndpointError(<<"No Link header found">>, res.status)
    ELSE firstWebmentionLink(res.link, res.status)

\* An element of the target page: its name and its rel and href attributes
Element(name, rel, ref) == [name |-> name, rel |-> rel, ref |-> ref]

isWebmentionElement(e) == e.name \in {"link", "a"} /\ e.rel = "webmention"

\* lines 68-82: every matching element the parser reports overwrites
\* webmentionEndpoint; parser.end() stops the stream after the current write.
\* What remains is the href of the last match of the first write that has one.
parsedEndpoint(res) ==
    LET matches == {i \in 1..Len(res.tags) : isWebmentionElement(res.tags[i])}
        first == CHOOSE i \in matches : \A j \in matches : i <= j
        last == CHOOSE i \in matches : \A j \in matches : i >= j
    IN IF matches = {} THEN NoRef
       ELSE IF res.chunked THEN res.tags[first].ref
       ELSE res.tags[last].ref

\* lines 59-86
tryParseHTML(res) ==
    IF res.bodyNull THEN EndpointError(<<"No body found">>, res.status)
    ELSE IF res.contentType \notin {"text/html", "text/html; charset=utf-8"}
    THEN EndpointError(<<"Not an HTML document">>, res.status)
    ELSE IF parsedEndpoint(res).k # "none" THEN Discovered(parsedEndpoint(res))
    ELSE EndpointError(
             <<"No webmention Link header, <link> or <a> element found">>, res.status)

\* lines 100-104
tryHeadRequest(res) ==
    IF res.failed THEN Threw
    ELSE IF ~ok(res) THEN EndpointError(statusText(res.status), res.status)
    ELSE tryParseWebmentionLinkHeader(res)

\* lines 112-120
tryGetRequest(res) ==
    IF res.failed THEN Threw
    ELSE IF ~ok(res) THEN EndpointError(statusText(res.status), res.status)
    ELSE LET webmentionEndpoint == tryParseWebmentionLinkHeader(res)
         IN IF truthy(webmentionEndpoint) THEN webmentionEndpoint
            ELSE tryParseHTML(res)

\* The scheme of URL.protocol, for writing the URL out again
schemeOf(protocol) ==
    CASE protocol = "https:" -> "https"
      [] protocol = "http:" -> "http"
      [] protocol = "ftp:" -> "ftp"
      [] OTHER -> ""

\* The string URL.href as a written URL
hrefRaw(u) == Raw(schemeOf(u.protocol), u.hostname, u.port, u.pathname)

\* new URL(endpoint, url): a path replaces the path of the base
resolveURL(ref, base) ==
    IF ref.k = "path" THEN [ParseRaw(base) EXCEPT !.pathname = ref.raw.path]
    ELSE ParseRaw(ref.raw)

\* A violation that names neither the policy nor what was violated
policyViolationUnnamed(policy, violation, expected, found) ==
    EndpointError(<<"policy violation">>, 500)

\* lines 122-132
crossOriginPolicyViolation(policy, violation, expected, found) ==
    EndpointError(
        <<policy, " policy violation (", violation, "): expected ">>
            \o expected \o <<", found ">> \o found,
        500)

\* line 135
normaliseHostname(hostname) ==
    LET lower == toLowerCase(hostname)
    IN IF lower # <<>> /\ lower[Len(lower)] = "."
       THEN SubSeq(lower, 1, Len(lower) - 1)
       ELSE lower

\* lines 137-151
isSameSite(check, relative) ==
    LET c == normaliseHostname(check)
        r == normaliseHostname(relative)
        checkParts == split(c, ".")
        relativeParts == split(r, ".")
        slicedCheck == SubSeq(checkParts,
                              Len(checkParts) - Len(relativeParts) + 1,
                              Len(checkParts))
    IN IF c = r THEN TRUE
       ELSE IF Len(checkParts) <= Len(relativeParts) THEN FALSE
       ELSE \A i \in 1..Len(slicedCheck) : slicedCheck[i] = relativeParts[i]

\* lines 296-300: the defaults of Sender(options)
crossOriginPolicy(o) ==
    IF o.crossOriginPolicy.set THEN o.crossOriginPolicy.val ELSE "cross-origin"

RawWebmentionIO ==
    Raw("https", <<"w", "e", "b", "m", "e", "n", "t", "i", "o", "n", ".", "i", "o">>,
        "", <<>>)

\* No origin is exempted
noAllowedOrigins(o) == {}

\* an origin written without a scheme gets "https://"
allowedOrigins(o) ==
    LET given == IF o.allowedOrigins.set THEN o.allowedOrigins.val
                 ELSE {RawWebmentionIO}
    IN {ParseRaw(IF r.scheme \in {"http", "https"} THEN r
                 ELSE [r EXCEPT !.scheme = "https"]) : r \in given}

\* lines 161-205: what discovery makes of the endpoint found for target `url`
applyPolicy(webmentionEndpoint, url, o) ==
    IF webmentionEndpoint.tag # "Discovered" THEN webmentionEndpoint
    ELSE IF webmentionEndpoint.endpoint.k = "bad" THEN Threw
    ELSE LET found == resolveURL(webmentionEndpoint.endpoint, url)
             resolved == AbsRef(hrefRaw(found))
             original == ParseRaw(url)
             policy == crossOriginPolicy(o)
         IN IF policy = "cross-origin" THEN Discovered(resolved)
            ELSE IF \E origin \in allowedOrigins(o) :
                       /\ origin.protocol = found.protocol
                       /\ URLhost(origin) = URLhost(found)
                       /\ origin.port = found.port
            THEN Discovered(resolved)
            ELSE IF original.protocol # found.protocol
            THEN crossOriginPolicyViolation(policy, "protocol",
                     <<original.protocol>>, <<found.protocol>>)
            ELSE IF policy = "same-origin"
            THEN IF URLhost(original) # URLhost(found)
                 THEN crossOriginPolicyViolation(policy, "host",
                          URLhost(original), URLhost(found))
                 ELSE IF original.port # found.port
                 THEN crossOriginPolicyViolation(policy, "port",
                          <<original.port>>, <<found.port>>)
                 ELSE Discovered(resolved)
            ELSE IF policy = "same-site"
            THEN IF ~isSameSite(URLhost(original), URLhost(found))
                 THEN crossOriginPolicyViolation(policy, "host",
                          URLhost(original), URLhost(found))
                 ELSE Discovered(resolved)
            ELSE Discovered(resolved)

\* line 160: (await tryHeadRequest(url)) ?? (await tryGetRequest(url)).
\* The requests this issues, given what the server answers to each
discoveryRequests(url, headRes, getRes) ==
    LET h == tryHeadRequest(headRes)
    IN IF h.tag # "throw" /\ nullish(h)
       THEN <<[method |-> "HEAD", url |-> RawText(url)],
              [method |-> "GET", url |-> RawText(url)]>>
       ELSE <<[method |-> "HEAD", url |-> RawText(url)]>>

\* lines 153-205
discoverWebmentionEndpoint(url, o, headRes, getRes) ==
    LET h == tryHeadRequest(headRes)
        webmentionEndpoint ==
            IF h.tag = "throw" THEN Threw
            ELSE IF nullish(h) THEN tryGetRequest(getRes)
            ELSE h
    IN applyPolicy(webmentionEndpoint, url, o)

\* WebmentionResponse.Accepted and WebmentionResponse.Error; location is <<>>
\* when there is none
Accepted(location) ==
    [tag |-> "Accepted", location |-> location, message |-> <<>>, code |-> 0]
ResponseError(message, code) ==
    [tag |-> "Error", location |-> <<>>, message |-> message, code |-> code]
NotifyThrew == [tag |-> "throw", location |-> <<>>, message |-> <<>>, code |-> 0]
NoResult == [tag |-> "none", location |-> <<>>, message |-> <<>>, code |-> 0]

\* The answer to the POST.  unreadable: response.text() rejects
PostResponse(status, location, text, unreadable) ==
    [failed |-> FALSE, status |-> status, location |-> location, text |-> text,
     unreadable |-> unreadable]
PostFailure ==
    [failed |-> TRUE, status |-> 0, location |-> <<>>, text |-> <<>>,
     unreadable |-> FALSE]

\* lines 247-267
notifyReceiver(res) ==
    LET error == ResponseError(IF res.unreadable THEN statusText(res.status)
                               ELSE res.text,
                               res.status)
    IN IF res.failed THEN NotifyThrew
       ELSE IF res.status = 201
       THEN IF res.location # <<>> THEN Accepted(res.location) ELSE error
       ELSE IF ok(res) THEN Accepted(<<>>)
       ELSE error

-----------------------------------------------------------------------------
\* The inputs of the sender

PathWM == <<"/", "w", "m">>

TargetBC == Raw("https", HostBC, "", PathP)
TargetABC == Raw("https", HostABC, "", PathP)

Calls == [source : {RawB}, target : {TargetBC, TargetABC}]

SenderOptionsSet ==
    [crossOriginPolicy : {NotGiven(""), Given("same-origin"), Given("same-site"),
                          Given("cross-origin")},
     allowedOrigins : {NotGiven({}),
                       Given({Raw("", HostXC, "", <<>>), Raw("http", HostBC, "", <<>>)})}]

EndpointRefs ==
    {AbsRef(Raw("HTTPS", <<"B", ".", "C">>, "443", PathWM)),
     AbsRef(Raw("https", HostABC, "", PathWM)),
     AbsRef(Raw("https", HostXC, "", PathWM)),
     AbsRef(Raw("http", HostBC, "", PathWM)),
     AbsRef(Raw("https", HostBC, "8080", PathWM)),
     PathRef(PathWM),
     BadRef}

LinkEntries ==
    {Link(FALSE, ref, "webmention") : ref \in EndpointRefs}
    \cup {Link(FALSE, AbsRef(Raw("https", HostXC, "", <<>>)), "next"),
          Link(TRUE, PathRef(PathWM), "webmention")}

\* The header value starts at its first link: white space can only precede
\* a later one
LinkHeaders == {l \in SeqsUpTo(LinkEntries, MaxLinks) : l = <<>> \/ ~l[1].lead}

HeadResponses ==
    {NetworkFailure}
    \cup {ServerResponse(st, <<>>, "text/html", TRUE, <<>>, FALSE) : st \in {404, 500}}
    \cup {ServerResponse(200, l, "text/html", TRUE, <<>>, FALSE) : l \in LinkHeaders}

Elements ==
    {Element("link", "webmention", PathRef(PathWM)),
     Element("a", "webmention", AbsRef(Raw("https", HostXC, "", PathWM))),
     Element("link", "stylesheet", PathRef(<<"/", "c", "s", "s">>)),
     Element("div", "webmention", PathRef(<<"/", "d">>))}

GetLinkHeaders ==
    SeqsUpTo({Link(FALSE, AbsRef(Raw("https", HostABC, "", PathWM)), "webmention"),
              Link(FALSE, AbsRef(Raw("https", HostXC, "", <<>>)), "next")},
             MaxLinks)

GetResponses ==
    {NetworkFailure, ServerResponse(404, <<>>, "text/html", FALSE, <<>>, FALSE),
     ServerResponse(200, <<>>, "text/html", TRUE, <<>>, FALSE)}
    \cup {ServerResponse(200, l, ct, FALSE, d, ch) :
             l \in GetLinkHeaders,
             ct \in {"text/html", "text/html; charset=utf-8", "application/json"},
             d \in SeqsUpTo(Elements, MaxDoc),
             ch \in BOOLEAN}

Location == <<"/", "s", "t", "a", "t", "u", "s">>

PostResponses ==
    {PostFailure}
    \cup {PostResponse(st, l, <<"b", "o", "d", "y">>, u) :
             st \in {199, 200, 201, 299, 300, 404},
             l \in {<<>>, Location},
             u \in BOOLEAN}

NotPosted == PostResponse(0, <<>>, <<>>, FALSE)

-----------------------------------------------------------------------------
\* src/app/sender.ts: Sender(options), one sendWebmention(source, target)

\* lines 306 and 153-205: discovery.  The HEAD request is issued and settles;
\* the GET request is issued only when the HEAD result is nullish
Discover ==
    /\ spc = "start"
    /\ \E h \in HeadResponses :
          \E g \in IF tryHeadRequest(h).tag # "throw" /\ nullish(tryHeadRequest(h))
                   THEN GetResponses ELSE {NotAsked} :
             /\ net' = [net EXCEPT !.head = h, !.get = g]
             /\ sent' = sent \o discoveryRequests(call.target, h, g)
             /\ discovery' = discoverWebmentionEndpoint(call.target, sopts, h, g)
             /\ spc' = IF discovery'.tag = "throw" THEN "threw" ELSE "discovered"
    /\ UNCHANGED <<sopts, call, result>>
    /\ UNCHANGED rvars
    /\ UNCHANGED <<uvars, dvars, cvars>>

\* lines 308-311: a discovery error is returned as the send error
ReturnError ==
    /\ spc = "discovered"
    /\ discovery.tag = "Error"
    /\ result' = ResponseError(discovery.message, discovery.code)
    /\ spc' = "done"
    /\ UNCHANGED <<sopts, call, net, sent, discovery>>
    /\ UNCHANGED rvars
    /\ UNCHANGED <<uvars, dvars, cvars>>

\* sendWebmention without the return of lines 308-311: the POST is issued
\* whatever discovery returned
NotifyWithoutReturn ==
    /\ spc = "discovered"
    /\ \E p \in PostResponses :
          /\ net' = [net EXCEPT !.post = p]
          /\ sent' = Append(sent, [method |-> "POST",
                                   url |-> RawText(discovery.endpoint.raw)])
          /\ result' = notifyReceiver(p)
          /\ spc' = IF result'.tag = "throw" THEN "threw" ELSE "done"
    /\ UNCHANGED <<sopts, call, discovery>>
    /\ UNCHANGED rvars
    /\ UNCHANGED <<uvars, dvars, cvars>>

\* lines 313 and 219-268: the POST to the endpoint is issued and settles
Notify ==
    /\ spc = "discovered"
    /\ discovery.tag = "Discovered"
    /\ \E p \in PostResponses :
          /\ net' = [net EXCEPT !.post = p]
          /\ sent' = Append(sent, [method |-> "POST",
                                   url |-> RawText(discovery.endpoint.raw)])
          /\ result' = notifyReceiver(p)
          /\ spc' = IF result'.tag = "throw" THEN "threw" ELSE "done"
    /\ UNCHANGED <<sopts, call, discovery>>
    /\ UNCHANGED rvars
    /\ UNCHANGED <<uvars, dvars, cvars>>

\* lines 112-120 and 161-205 on their own: discovery from a GET response
TryGet ==
    /\ spc = "get"
    /\ sent' = Append(sent, [method |-> "GET", url |-> RawText(call.target)])
    /\ discovery' = applyPolicy(tryGetRequest(net.get), call.target, sopts)
    /\ spc' = IF discovery'.tag = "throw" THEN "threw" ELSE "discovered"
    /\ UNCHANGED <<sopts, call, net, result>>
    /\ UNCHANGED rvars
    /\ UNCHANGED <<uvars, dvars, cvars>>

-----------------------------------------------------------------------------
\* The library functions on their own: parseExtension followed by
\* reparseExtension, and matchDomain

\* Allow-list patterns and host names ("-" and "x" stand for any character
\* that is not a dot)
Patterns ==
    {<<"*", ".", "b", ".", "c">>, <<"b", ".", "c">>, <<"B", ".", "C">>,
     <<"a", ".", "*", ".", "c">>, <<"*">>, <<"*", ".", "b", ".", "*">>,
     <<"b", "*">>, <<"a", "-", "b", ".", "c">>, <<>>}

Domains ==
    {<<"b", ".", "c">>, <<"B", ".", "c">>, <<"a", ".", "b", ".", "c">>,
     <<"x", ".", "a", ".", "b", ".", "c">>, <<"a", ".", "c">>,
     <<"a", ".", ".", "c">>, <<"b", "x", "c">>, <<"a", ".", "b", ".", "c", ".", "x">>,
     <<"a", "-", "b", ".", "c">>, <<"x", "b", ".", "c">>, <<>>}

NotParsed ==
    [tag |-> "none", source |-> FormNone, target |-> FormNone, kind |-> Unknown,
     definition |-> "", payload |-> JUndef, res |-> NoResponse]

LibIdle ==
    /\ registry = [pc |-> "idle", mention |-> NoMention,
                   banUnknownExtensions |-> FALSE, parsed |-> NotParsed,
                   packaged |-> NotParsed, reparsed |-> NotParsed]
    /\ matcher = [pc |-> "idle", pattern |-> <<>>, domain |-> <<>>, matched |-> FALSE]

\* parseExtension(mention), in both registries
ParseExtension ==
    /\ registry.pc = "parse"
    /\ registry' =
          [registry EXCEPT
              !.parsed = parseExtension(registry.mention),
              !.packaged = parseExtensionPackage(registry.mention,
                                                 registry.banUnknownExtensions),
              !.pc = IF parseExtension(registry.mention).tag = "ok"
                     THEN "reparse" ELSE "done"]
    /\ UNCHANGED <<rvars, svars, matcher, dvars, cvars>>

\* reparseExtension(parsed)
ReparseExtension ==
    /\ registry.pc = "reparse"
    /\ registry' = [registry EXCEPT !.reparsed = reparseExtension(registry.parsed),
                                    !.pc = "done"]
    /\ UNCHANGED <<rvars, svars, matcher, dvars, cvars>>

\* matchDomain(pattern, domain)
Match ==
    /\ matcher.pc = "match"
    /\ matcher' = [matcher EXCEPT !.matched = matchDomain(matcher.pattern, matcher.domain),
                                  !.pc = "done"]
    /\ UNCHANGED <<rvars, svars, registry, dvars, cvars>>

-----------------------------------------------------------------------------
\* Storage: table webmentions of src/unnamed/part_001 (the same table and
\* statements as src/packages/mentions/src/util.test.ts Webmentions, which
\* adds update)

\* latest CURRENT_TIMESTAMP, and the most rows ever inserted
MaxClock == 1
MaxSequence == 2

\* SQL NULL, and a TEXT value
NULL == JNull
TEXT(s) == JStr(<<s>>)

\* JSON.stringify of the payloads a webmention carries
JSONstringify(val) ==
    CASE val = JObj(<<>>) -> TEXT("{}")
      [] val = JObj(<<JNum>>) -> TEXT("{\"a\":1}")
      [] OTHER -> NULL

\* innerObjectToString and the binding of the statement's parameters:
\* an object becomes its JSON text, undefined and null become NULL
innerObjectToString(webmention) ==
    [source |-> webmention.source,
     target |-> webmention.target,
     definition |-> IF webmention.definition.k = "str"
                    THEN TEXT(webmention.definition.s) ELSE NULL,
     payload |-> IF isObject(webmention.payload)
                 THEN JSONstringify(webmention.payload) ELSE NULL]

\* The rows the UNIQUE(source, target) key of a webmention selects
keyed(rows, webmention) ==
    {r \in rows : r.source = webmention.source /\ r.target = webmention.target}

\* What a statement leaves: the rows, the AUTOINCREMENT sequence and whether
\* it ran or raised
Ran(rows, seq) == [rows |-> rows, sequence |-> seq, outcome |-> "ran"]
Raised(rows, seq) == [rows |-> rows, sequence |-> seq, outcome |-> "SQLITE_CONSTRAINT"]

\* INSERT without the ON CONFLICT clause
createWithoutUpsert(rows, seq, now, webmention) ==
    LET bound == innerObjectToString(webmention)
    IN IF keyed(rows, bound) # {} THEN Raised(rows, seq)
       ELSE Ran(rows \cup {[id |-> seq + 1, source |-> bound.source,
                            target |-> bound.target, definition |-> bound.definition,
                            payload |-> bound.payload, created_at |-> now,
                            updated_at |-> now]}, seq + 1)

\* INSERT OR REPLACE: the conflicting row is deleted and a new one inserted
createReplacing(rows, seq, now, webmention) ==
    LET bound == innerObjectToString(webmention)
    IN Ran((rows \ keyed(rows, bound))
              \cup {[id |-> seq + 1, source |-> bound.source,
                     target |-> bound.target, definition |-> bound.definition,
                     payload |-> bound.payload, created_at |-> now,
                     updated_at |-> now]}, seq + 1)

\* part_001 lines 58-63 and 83-84: INSERT ... ON CONFLICT(source, target)
\* DO UPDATE SET updated_at = CURRENT_TIMESTAMP
createWebmention(rows, seq, now, webmention) ==
    LET bound == innerObjectToString(webmention)
    IN IF keyed(rows, bound) # {}
       THEN Ran({IF r \in keyed(rows, bound) THEN [r EXCEPT !.updated_at = now] ELSE r
                 : r \in rows}, seq)
       ELSE Ran(rows \cup {[id |-> seq + 1, source |-> bound.source,
                            target |-> bound.target, definition |-> bound.definition,
                            payload |-> bound.payload, created_at |-> now,
                            updated_at |-> now]}, seq + 1)

\* part_001 lines 64-66 and 85: DELETE ... WHERE source = :source AND target = :target
deleteWebmention(rows, seq, webmention) ==
    Ran(rows \ keyed(rows, webmention), seq)

\* util.test.ts lines 101-104 and 124: UPDATE ... SET definition, payload,
\* updated_at WHERE source = :source AND target = :target
updateWebmention(rows, seq, now, webmention) ==
    LET bound == innerObjectToString(webmention)
    IN Ran({IF r \in keyed(rows, bound)
            THEN [r EXCEPT !.definition = bound.definition,
                           !.payload = bound.payload, !.updated_at = now]
            ELSE r : r \in rows}, seq)

\* part_001 lines 71-82: the rows a partial webmention selects, ORDER BY
\* created_at DESC; rows of one timestamp come in any order.  A missing or
\* empty field is no condition, and without a condition nothing is selected.
selected(rows, partial) ==
    IF partial.source = <<>> /\ partial.target = <<>> THEN {}
    ELSE {r \in rows : /\ partial.source # <<>> => r.source = partial.source
                       /\ partial.target # <<>> => r.target = partial.target}

getWebmentions(rows, partial) ==
    LET sel == selected(rows, partial)
    IN {l \in [1..Cardinality(sel) -> sel] :
           /\ \A i, j \in DOMAIN l : i # j => l[i] # l[j]
           /\ \A i, j \in DOMAIN l : i < j => l[i].created_at >= l[j].created_at}

\* The webmentions the store is called with: two of one source, two of one
\* target
StoredSources == {href(ParseRaw(RawB)), href(ParseRaw(RawA2))}
StoredTargets == {href(ParseRaw(RawA)), href(ParseRaw(RawAq))}
StoredPairs ==
    {p \in StoredSources \X StoredTargets :
        p[1] = href(ParseRaw(RawB)) \/ p[2] = href(ParseRaw(RawA))}
StoredWebmentions ==
    {[source |-> p[1], target |-> p[2], definition |-> e.definition,
      payload |-> e.payload] :
        p \in StoredPairs,
        e \in {[definition |-> NoField, payload |-> JUndef],
               [definition |-> Field(LikeDefinition), payload |-> JObj(<<>>)]}}
BaseWebmentions == {v \in StoredWebmentions : v.definition = NoField}
PartialWebmentions ==
    [source : {<<>>, href(ParseRaw(RawB))}, target : {<<>>, href(ParseRaw(RawA))},
     definition : {NoField}, payload : {JUndef}]

NoStorageCall ==
    [pc |-> "idle", op |-> "", webmention |-> CHOOSE w \in BaseWebmentions : TRUE,
     outcome |-> "", listed |-> <<>>]

StorageIdle ==
    /\ webmentions = {}
    /\ sequence = 0
    /\ clock = 0
    /\ storage = NoStorageCall

\* Time passes between two statements
Tick ==
    /\ storage.pc # "called"
    /\ clock < MaxClock
    /\ clock' = clock + 1
    /\ UNCHANGED <<webmentions, sequence, storage>>
    /\ UNCHANGED <<rvars, svars, uvars, cvars>>

\* A method of the store is called
CallStorage ==
    /\ storage.pc \in {"ready", "returned"}
    /\ \E op \in {"create", "delete", "update", "list"} :
       \E w \in CASE op = "create" -> IF sequence < MaxSequence
                                      THEN StoredWebmentions
                                      ELSE {v \in StoredWebmentions :
                                               keyed(webmentions, v) # {}}
                 [] op = "update" -> {v \in StoredWebmentions :
                                         v.definition # NoField}
                 [] op = "delete" -> BaseWebmentions
                 [] OTHER -> PartialWebmentions :
          storage' = [pc |-> "called", op |-> op, webmention |-> w,
                      outcome |-> "", listed |-> <<>>]
    /\ UNCHANGED <<webmentions, sequence, clock>>
    /\ UNCHANGED <<rvars, svars, uvars, cvars>>

\* The statement of a call is run
Settle(ran) ==
    /\ webmentions' = ran.rows
    /\ sequence' = ran.sequence
    /\ storage' = [storage EXCEPT !.pc = "returned", !.outcome = ran.outcome]
    /\ UNCHANGED clock
    /\ UNCHANGED <<rvars, svars, uvars, cvars>>

RunCreate ==
    /\ storage.pc = "called"
    /\ storage.op = "create"
    /\ Settle(createWebmention(webmentions, sequence, clock, storage.webmention))

RunDelete ==
    /\ storage.pc = "called"
    /\ storage.op = "delete"
    /\ Settle(deleteWebmention(webmentions, sequence, storage.webmention))

RunUpdate ==
    /\ storage.pc = "called"
    /\ storage.op = "update"
    /\ Settle(updateWebmention(webmentions, sequence, clock, storage.webmention))

RunList ==
    /\ storage.pc = "called"
    /\ storage.op = "list"
    /\ \E l \in getWebmentions(webmentions, storage.webmention) :
          storage' = [storage EXCEPT !.pc = "returned", !.outcome = "ran",
                                     !.listed = l]
    /\ UNCHANGED <<webmentions, sequence, clock>>
    /\ UNCHANGED <<rvars, svars, uvars, cvars>>

-----------------------------------------------------------------------------
\* src/app/receiver.ts lines 134-276 as one function of the request and of what
\* its awaits settle to: readable (request.text()), settled (the fetch of the
\* source, NoFetched for a network failure) and check (the callback of a
\* custom content type)

Returned(res) == [pc |-> "done", response |-> res]
Unsettled(at) == [pc |-> at, response |-> NoResponse]

verification(o, t, settled, check) ==
    IF settled = NoFetched THEN Returned(Err(<<"Failed to fetch source">>, 500))
    ELSE IF settled.status = 410 THEN Returned(Resp(200, <<"Gone. Deleted Webmention">>))
    ELSE IF ~ok(settled)
    THEN Returned(Err(<<"Failed to fetch source: ", ToString(settled.status)>>, 400))
    ELSE IF settled.bodyNull THEN Returned(Err(<<"source response body is null">>, 400))
    ELSE CASE settled.contentType = "text/html" ->
                IF settled.body.broken THEN Unsettled("stuck")
                ELSE IF ~validateHTML(settled.body, t, requireAttribute(o))
                THEN Returned(Err(<<"HTML body does not contain target">>, 400))
                ELSE Returned(Resp(200, <<"OK">>))
           [] settled.contentType = "application/json" ->
                IF settled.body.broken
                THEN Returned(Err(<<"Error parsing JSON body">>, 400))
                ELSE IF ~validateJSON(settled.body, t)
                THEN Returned(Err(<<"JSON body does not contain target">>, 400))
                ELSE Returned(Resp(200, <<"OK">>))
           [] settled.contentType = "text/plain" ->
                IF settled.body.broken
                THEN Returned(Err(<<"Error parsing plain text body">>, 400))
                ELSE IF ~includes(settled.body.text, href(t))
                THEN Returned(Err(<<"Plain text body does not contain target">>, 400))
                ELSE Returned(Resp(200, <<"OK">>))
           [] OTHER ->
                IF ~o.checkCustomContentTypeBody
                THEN Returned(Err(<<"Unsupported content type">>, 400))
                ELSE IF check = "rejects"
                THEN Returned(Err(<<"Error checking custom content type body">>, 400))
                ELSE IF check = "false"
                THEN Returned(Err(<<settled.contentType,
                                    " body does not contain target">>, 400))
                ELSE Returned(Resp(200, <<"OK">>))

receiver(o, req, readable, settled, check) ==
    IF req.method # "POST"
    THEN Returned(Resp(405, <<"WebMention Request must be POST">>))
    ELSE IF req.bodyNull
    THEN Returned(Resp(400, <<"Request body must not be null">>))
    ELSE IF req.contentType # FormContentType
    THEN Returned(Resp(400, <<"Content-Type must be application/x-www-form-urlencoded">>))
    ELSE IF ~readable
    THEN Returned(Err(<<"Malformed payload. Could not parse request body">>, 400))
    ELSE LET v == validation(o, req.form)
         IN IF v.next = "done" THEN Returned(v.res)
            ELSE IF v.next = "threw" THEN Unsettled("threw")
            ELSE verification(o, parseURL(req.form.target, "target",
                                          acceptedProtocols(o)).url,
                              settled, check)

-----------------------------------------------------------------------------
\* Two requests served by one Receiver.  Each invocation of receiver() has its
\* own request, mention, source, target, fetched and response (parameters and
\* `const`s of the closure, lines 134-276); the event loop runs one invocation
\* at a time and may go from one to the other wherever it awaits.

Locals(req, at, m, s, t, f, res) ==
    [request |-> req, pc |-> at, mention |-> m, source |-> s, target |-> t,
     fetched |-> f, response |-> res]

\* No second invocation
NotParked ==
    Locals([method |-> "", bodyNull |-> TRUE, contentType |-> "",
            form |-> NoMention], "none", NoMention, NoURL, NoURL, NoFetched, NoResponse)
Alone == parked = NotParked

\* An invocation that shares `mention` with the other one
SwitchSharingMention ==
    /\ parked.pc \notin {"none", "done", "threw", "stuck"}
    /\ parked' = Locals(request, pc, mention, source, target, fetched, response)
    /\ request' = parked.request
    /\ pc' = parked.pc
    /\ UNCHANGED mention
    /\ source' = parked.source
    /\ target' = parked.target
    /\ fetched' = parked.fetched
    /\ response' = parked.response
    /\ UNCHANGED <<options, fetches, inserted, deleted, checks>>
    /\ UNCHANGED <<svars, uvars, dvars>>

\* The event loop leaves the running invocation where it is and resumes the
\* other one
Switch ==
    /\ parked.pc \notin {"none", "done", "threw", "stuck"}
    /\ parked' = Locals(request, pc, mention, source, target, fetched, response)
    /\ request' = parked.request
    /\ pc' = parked.pc
    /\ mention' = parked.mention
    /\ source' = parked.source
    /\ target' = parked.target
    /\ fetched' = parked.fetched
    /\ response' = parked.response
    /\ UNCHANGED <<options, fetches, inserted, deleted, checks>>
    /\ UNCHANGED <<svars, uvars, dvars>>

\* The requests and the fetched sources of the concurrent runs
ConcurrentRequests ==
    {r \in Requests :
        /\ r.contentType = FormContentType
        /\ r.form.payload = NoField
        /\ \/ r.bodyNull /\ r.form = NoMention
           \/ /\ ~r.bodyNull
              /\ r.method = "POST"
              /\ r.form.source \in {FormNone, FormURL(RawB), FormURL(RawA)}
              /\ r.form.target \in {FormURL(RawA), FormURL(RawB)}
              /\ r.form.definition \in {NoField, Field(LikeDefinition)}}

ConcurrentFetches ==
    {r \in FetchResponses :
        /\ r.status \in {200, 410}
        /\ r.contentType \in {"text/html", "application/json", "text/plain",
                              "application/xml"}
        /\ Len(r.body.tags) <= 1
        /\ r.body.kind = "html" => /\ r.body.tags # <<>>
                                   /\ r.body.tags[1].name = "a"
        /\ r.body.kind = "json" =>
              r.body.json \in {JStr(RawText(RawA)), JObj(<<JStr(RawText(RawA))>>)}
        /\ r.body.kind = "text" => r.body.text \in {<<>>, RawText(RawAq)}}

NoNet == [head |-> NotAsked, get |-> NotAsked, post |-> NotPosted]

SenderIdle ==
    /\ sopts = [crossOriginPolicy |-> NotGiven(""), allowedOrigins |-> NotGiven({})]
    /\ call = [source |-> NoRaw, target |-> NoRaw]
    /\ spc = "idle"
    /\ net = NoNet
    /\ sent = <<>>
    /\ discovery = NoEndpoint
    /\ result = NoResult

ReceiverIdle ==
    /\ options = DefaultOptions
    /\ request = [method |-> "", bodyNull |-> TRUE, contentType |-> "",
                  form |-> [source |-> FormNone, target |-> FormNone,
                            definition |-> NoField, payload |-> NoField]]
    /\ pc = "idle"
    /\ mention = request.form
    /\ source = NoURL
    /\ target = NoURL
    /\ fetches = <<>>
    /\ fetched = NoFetched
    /\ response = NoResponse
    /\ inserted = <<>>
    /\ deleted = <<>>
    /\ checks = <<>>

SenderInit ==
    /\ sopts \in SenderOptionsSet
    /\ call \in Calls
    /\ spc = "start"
    /\ net = NoNet
    /\ sent = <<>>
    /\ discovery = NoEndpoint
    /\ result = NoResult
    /\ ReceiverIdle
    /\ LibIdle
    /\ StorageIdle
    /\ Alone

SenderNext ==
    \/ Discover
    \/ ReturnError
    \/ Notify

SenderSpec == SenderInit /\ [][SenderNext]_vars

GetInit ==
    /\ sopts \in {o \in SenderOptionsSet : ~o.allowedOrigins.set}
    /\ call \in Calls
    /\ spc = "get"
    /\ net \in [head : {NotAsked}, get : GetResponses, post : {NotPosted}]
    /\ sent = <<>>
    /\ discovery = NoEndpoint
    /\ result = NoResult
    /\ ReceiverIdle
    /\ LibIdle
    /\ StorageIdle
    /\ Alone

GetNext == TryGet

GetSpec == GetInit /\ [][GetNext]_vars

\* One call of a library function: of the registry, with the definition and
\* payload fields a form can carry, or of the matcher
LibInit ==
    /\ ReceiverIdle
    /\ SenderIdle
    /\ StorageIdle
    /\ Alone
    /\ \/ /\ \E d \in DefinitionFields \cup {Field(""), Field(MentionDefinition)} :
              \E p \in PayloadFields \cup {Field(""), Field("null"), Field("1")} :
              \E b \in BOOLEAN :
                 registry = [pc |-> "parse",
                             mention |-> [source |-> FormURL(RawB),
                                          target |-> FormURL(RawA),
                                          definition |-> d, payload |-> p],
                             banUnknownExtensions |-> b, parsed |-> NotParsed,
                             packaged |-> NotParsed, reparsed |-> NotParsed]
          /\ matcher = [pc |-> "idle", pattern |-> <<>>, domain |-> <<>>,
                        matched |-> FALSE]
       \/ /\ registry = [pc |-> "idle", mention |-> NoMention,
                          banUnknownExtensions |-> FALSE, parsed |-> NotParsed,
                          packaged |-> NotParsed, reparsed |-> NotParsed]
          /\ \E p \in Patterns : \E d \in Domains :
                 matcher = [pc |-> "match", pattern |-> p, domain |-> d,
                            matched |-> FALSE]

LibNext ==
    \/ ParseExtension
    \/ ReparseExtension
    \/ Match

LibSpec == LibInit /\ [][LibNext]_vars

\* A store on an empty database; the statements run one at a time
StorageInit ==
    /\ webmentions = {}
    /\ sequence = 0
    /\ clock = 0
    /\ storage = [NoStorageCall EXCEPT !.pc = "ready"]
    /\ ReceiverIdle
    /\ SenderIdle
    /\ LibIdle
    /\ Alone

StorageNext ==
    \/ Tick
    \/ CallStorage
    \/ RunCreate
    \/ RunDelete
    \/ RunUpdate
    \/ RunList

StorageSpec == StorageInit /\ [][StorageNext]_vars

\* Two requests arrive at one Receiver
ConcurrentInit ==
    /\ options \in {o \in OptionsSet : ~o.acceptedTargetDomains.set
                                       /\ ~o.acceptedProtocols.set
                                       /\ ~o.requireAttribute.set
                                       /\ ~o.acceptedContentTypes.set}
    /\ request \in ConcurrentRequests
    /\ pc = "start"
    /\ mention = NoMention
    /\ source = NoURL
    /\ target = NoURL
    /\ fetches = <<>>
    /\ fetched = NoFetched
    /\ response = NoResponse
    /\ inserted = <<>>
    /\ deleted = <<>>
    /\ checks = <<>>
    /\ \E r \in ConcurrentRequests :
          parked = Locals(r, "start", NoMention, NoURL, NoURL, NoFetched, NoResponse)
    /\ SenderIdle
    /\ LibIdle
    /\ StorageIdle

ConcurrentNext ==
    \/ Gate
    \/ ReadBody
    \/ Validate
    \/ FetchSource /\ fetched' \in ConcurrentFetches \cup {NoFetched}
    \/ CheckStatus
    \/ VerifyHTML
    \/ VerifyJSON
    \/ VerifyText
    \/ VerifyCustom
    \/ Switch

ConcurrentSpec == ConcurrentInit /\ [][ConcurrentNext]_vars

Init ==
    /\ options \in OptionsSet
    /\ request \in Requests
    /\ pc = "start"
    /\ mention = NoMention
    /\ source = NoURL
    /\ target = NoURL
    /\ fetches = <<>>
    /\ fetched = NoFetched
    /\ response = NoResponse
    /\ inserted = <<>>
    /\ deleted = <<>>
    /\ checks = <<>>
    /\ SenderIdle
    /\ LibIdle
    /\ StorageIdle
    /\ Alone

Next ==
    \/ Gate
    \/ ReadBody
    \/ Validate
    \/ FetchSource
    \/ CheckStatus
    \/ VerifyHTML
    \/ VerifyJSON
    \/ VerifyText
    \/ VerifyCustom

Spec == Init /\ [][Next]_vars

\* Every promise the receiver awaits is settled at some time, when the
\* runtime can settle it: the body read, the fetch, the reads of the fetched
\* body and the callback
LiveSpec == Spec /\ WF_vars(Next)

-----------------------------------------------------------------------------
\* Properties of the receiver (Spec)

\* The receiver coroutine has ended: with a response, with an exception, or
\* waiting on a promise that never settles
Ended == pc \in {"done", "threw", "stuck"}

GatePassed ==
    /\ request.method = "POST"
    /\ ~request.bodyNull
    /\ request.contentType = FormContentType

Malformed == Err(<<"Malformed payload. Could not parse request body">>, 400)

\* The body was read: the form fields are known to the receiver
FormRead ==
    /\ GatePassed
    /\ pc \notin {"start", "readBody"}
    /\ response # Malformed

\* A URL field that the protocol turns down: missing, not a string, not a
\* URL, or of a protocol outside acceptedProtocols
BadURLField(v) ==
    \/ v.k # "url"
    \/ LowerScheme(v.raw.scheme) \o ":" \notin acceptedProtocols(options)

Names(res, name) == \E i \in 1..Len(res.msg) : res.msg[i] = name

\* The extension fields of the form parse: ExtensionRegistry.parse yields a
\* webmention for them
ExtensionFieldsParse == parseExtension(request.form).tag = "ok"

SameURL ==
    /\ request.form.source.k = "url"
    /\ request.form.target.k = "url"
    /\ href(ParseRaw(request.form.source.raw)) = href(ParseRaw(request.form.target.raw))

AllValidationPasses ==
    /\ GatePassed
    /\ ~BadURLField(request.form.source)
    /\ ~BadURLField(request.form.target)
    /\ ExtensionFieldsParse
    /\ ~SameURL
    /\ domainSupported(options, ParseRaw(request.form.target.raw))

\* C1: whenever the receiver answers 200 for a request whose source fetch
\* returned a 2xx document verified to mention the target, storage.insert has
\* been called exactly once, with the webmention of that request.
C1_InsertBeforeOK ==
    (pc = "done" /\ response.status = 200 /\ ok(fetched))
        => /\ Len(inserted) = 1
           /\ inserted[1].source = href(source)
           /\ inserted[1].target = href(target)

\* C7: the source is fetched only in runs in which every validation step
\* passes, and a request that fails validation ends with an error response and
\* without a fetch.
C7_FetchOnlyWhenValid ==
    /\ fetches # <<>> => AllValidationPasses
    /\ (Ended /\ response # Malformed /\ ~AllValidationPasses)
           => /\ pc = "done"
              /\ response.status \in {400, 405}
              /\ fetches = <<>>

\* C8: a request whose source and target parse to the same href is answered 400.
C8_SameURLRejected ==
    (FormRead /\ pc # "validate" /\ ~BadURLField(request.form.source) /\ SameURL)
        => pc = "done" /\ response.status = 400

\* C9: a request that is not a POST is answered 405 whatever its body and
\* headers; a POST with a null body or a Content-Type other than
\* application/x-www-form-urlencoded is answered 400.
C9_FirstGate ==
    pc # "start" =>
        /\ request.method # "POST" => pc = "done" /\ response.status = 405
        /\ (request.method = "POST"
              /\ (request.bodyNull \/ request.contentType # FormContentType))
               => pc = "done" /\ response.status = 400

\* the gate turned a POST down for a Content-Type with a parameter
C9_Witness ==
    /\ pc = "done"
    /\ request.method = "POST"
    /\ ~request.bodyNull
    /\ request.contentType = "application/x-www-form-urlencoded; charset=utf-8"
    /\ response.status = 400

\* C10: a source or target that is missing, not a string, not a URL, or of a
\* protocol that is not accepted is answered 400 with a message that names the
\* field; otherwise the field passes.
C10_URLFields ==
    /\ \A v \in URLFields \cup {FormFile} : \A name \in {"source", "target"} :
          LET r == parseURL(v, name, acceptedProtocols(options))
          IN IF BadURLField(v)
             THEN r.err /\ r.res.status = 400 /\ Names(r.res, name)
             ELSE ~r.err /\ r.url = ParseRaw(v.raw)
    /\ (FormRead /\ pc # "validate") =>
          /\ BadURLField(mention.source)
                => pc = "done" /\ response.status = 400 /\ Names(response, "source")
          /\ (~BadURLField(mention.source) /\ BadURLField(mention.target))
                => pc = "done" /\ response.status = 400 /\ Names(response, "target")
          /\ (~BadURLField(mention.source) /\ ~BadURLField(mention.target))
                => /\ source = ParseRaw(mention.source.raw)
                   /\ target = ParseRaw(mention.target.raw)
                   /\ ~Names(response, "source")
                   /\ ~Names(response, "target")

\* a valid source and an ftp: target: 400 "Unsupported target protocol"
C10_Witness ==
    /\ pc = "done"
    /\ mention.source = FormURL(RawB)
    /\ mention.target = FormURL(RawF)
    /\ ~options.acceptedProtocols.set
    /\ response = Err(<<"Unsupported ", "target", " protocol">>, 400)

\* The checks on the form have been made
Validated == FormRead /\ pc # "validate"

\* The request came to the allow-list step: its URLs are valid and differ, and
\* its extension, when it names one, parses
ReachedAllowList ==
    /\ Validated
    /\ ~BadURLField(mention.source)
    /\ ~BadURLField(mention.target)
    /\ mention.definition = NoField \/ ExtensionFieldsParse
    /\ ~SameURL

\* C11: with acceptedTargetDomains configured a request passes the allow-list
\* step if and only if matchDomain holds of the target hostname for at least
\* one pattern, and is answered 400 otherwise; without it every target passes.
C11_AllowList ==
    ReachedAllowList =>
        IF /\ options.acceptedTargetDomains.set
           /\ ~\E i \in 1..Len(options.acceptedTargetDomains.val) :
                  matchDomain(options.acceptedTargetDomains.val[i], target.hostname)
        THEN /\ pc = "done"
             /\ response = Err(<<"Receiver does not support target domain">>, 400)
             /\ fetches = <<>>
        ELSE Len(fetches) = 1

\* the target HTTPS://B.C:443/p passed the list <<"*.x.c", "B.C">>
C11_Witness ==
    /\ pc = "fetch"
    /\ options.acceptedTargetDomains.set
    /\ mention.target = FormURL(RawA2)
    /\ ~matchDomain(options.acceptedTargetDomains.val[1], target.hostname)
    /\ matchDomain(options.acceptedTargetDomains.val[2], target.hostname)

\* C12: a form with a payload and no definition is answered 400, without a
\* fetch of the source, and never 200.
C12_PayloadWithoutDefinition ==
    (/\ Validated
     /\ mention.payload # NoField
     /\ mention.definition = NoField)
        => /\ pc = "done"
           /\ response.status = 400
           /\ fetches = <<>>

\* The fetch of the source was answered and the answer's status and body
\* have been looked at
StatusChecked == fetched # NoFetched /\ pc # "gotResponse"

\* C13: a source that answers 410 is answered 200, and no webmention is
\* inserted.
C13_Gone ==
    /\ (StatusChecked /\ fetched.status = 410)
           => pc = "done" /\ response.status = 200
    /\ fetched.status = 410 => inserted = <<>>

C13_Witness ==
    /\ pc = "done"
    /\ fetched.status = 410
    /\ response = Resp(200, <<"Gone. Deleted Webmention">>)
    /\ inserted = <<>>

\* The content verifier is running or has run
VerifierRan ==
    \/ pc \in {"verify", "stuck"}
    \/ checks # <<>>
    \/ /\ pc = "done"
       /\ response.msg[Len(response.msg)] \in
              {"OK", "HTML body does not contain target",
               "JSON body does not contain target", "Error parsing JSON body",
               "Plain text body does not contain target",
               "Error parsing plain text body", "Unsupported content type",
               " body does not contain target",
               "Error checking custom content type body"}

\* C14: a fetch that fails on the network is answered 500, a non-2xx status
\* other than 410 is answered 400, a 2xx response with a null body is
\* answered 400, and in none of these cases does the content verifier run.
C14_FetchOutcomes ==
    /\ (Len(fetches) = 1 /\ fetched = NoFetched /\ pc # "fetch")
           => /\ pc = "done"
              /\ response.status = 500
              /\ ~VerifierRan
    /\ (StatusChecked /\ ~ok(fetched) /\ fetched.status # 410)
           => /\ pc = "done"
              /\ response.status = 400
              /\ ~VerifierRan
    /\ (StatusChecked /\ ok(fetched) /\ fetched.bodyNull)
           => /\ pc = "done"
              /\ response.status = 400
              /\ ~VerifierRan

\* a 200 without a body was turned down
C14_Witness ==
    /\ pc = "done"
    /\ fetched.status = 200
    /\ fetched.bodyNull
    /\ response = Err(<<"source response body is null">>, 400)

\* The verifier has run on a fetched document of this Content-Type whose
\* body could be read
Verified(contentType) ==
    /\ StatusChecked
    /\ ok(fetched)
    /\ ~fetched.bodyNull
    /\ fetched.contentType = contentType
    /\ ~fetched.body.broken
    /\ pc # "verify"

\* tag i of the fetched document is an <a> whose href is the target
AnchorToTarget(i) ==
    /\ fetched.body.tags[i].name = "a"
    /\ fetched.body.tags[i].href = href(target)

\* tag i of the fetched document is an <img>, <audio> or <video> whose src is
\* the target
MediaOfTarget(i) ==
    /\ fetched.body.tags[i].name \in {"img", "audio", "video"}
    /\ fetched.body.tags[i].src = href(target)

\* tag i carries the configured requireAttribute
Marked(i) == requireAttribute(options) \in fetched.body.tags[i].attrs

\* C15: a text/html document is verified if and only if one of its tags
\* carries requireAttribute and is an <a> with the target as href or an
\* <img>, <audio> or <video> with the target as src; otherwise the answer is
\* 400.
C15_HTMLVerification ==
    Verified("text/html") =>
        /\ pc = "done"
        /\ IF \E i \in 1..Len(fetched.body.tags) :
                  Marked(i) /\ (AnchorToTarget(i) \/ MediaOfTarget(i))
           THEN response.status = 200
           ELSE response = Err(<<"HTML body does not contain target">>, 400)

\* a document whose only link to the target is on a tag without the
\* attribute was turned down
C15_Witness ==
    /\ Verified("text/html")
    /\ \E i \in 1..Len(fetched.body.tags) : AnchorToTarget(i) /\ ~Marked(i)
    /\ response = Err(<<"HTML body does not contain target">>, 400)

\* C16 as stated: a text/html document with an <a> whose href is the target
\* is answered 200.
C16_AnchorAccepted ==
    (/\ Verified("text/html")
     /\ \E i \in 1..Len(fetched.body.tags) : AnchorToTarget(i))
        => pc = "done" /\ response.status = 200

\* C16, amended: a text/html document with an <a> that carries
\* requireAttribute and whose href is the target is answered 200.
C16_MarkedAnchorAccepted ==
    (/\ Verified("text/html")
     /\ \E i \in 1..Len(fetched.body.tags) : AnchorToTarget(i) /\ Marked(i))
        => pc = "done" /\ response.status = 200

\* <a data-mention href=target> was accepted under requireAttribute
\* "data-mention"
C16_Witness ==
    /\ pc = "done"
    /\ response.status = 200
    /\ options.requireAttribute.set
    /\ fetched.contentType = "text/html"
    /\ \E i \in 1..Len(fetched.body.tags) : AnchorToTarget(i) /\ Marked(i)

\* Some string leaf of the JSON value, at any depth, is the string t
RECURSIVE hasStringLeaf(_, _)
hasStringLeaf(val, t) ==
    \/ val = JStr(t)
    \/ /\ val.t \in {"array", "object"}
       /\ \E i \in 1..Len(val.v) : hasStringLeaf(val.v[i], t)

\* C17: an application/json document is verified if and only if some string
\* leaf of the decoded value, at any depth, direct string elements of a
\* top-level array included, is the target's href.
C17_JSONVerification ==
    Verified("application/json") =>
        /\ pc = "done"
        /\ response.status = 200 <=> hasStringLeaf(fetched.body.json, href(target))

\* t occurs in text
occursIn(text, t) ==
    \E i \in 1..Len(text) : \E j \in i..Len(text) : SubSeq(text, i, j) = t

\* C18: a text/plain document is answered 200 if and only if the target's
\* href occurs in the body text, and 400 otherwise.
C18_PlainText ==
    Verified("text/plain") =>
        /\ pc = "done"
        /\ IF occursIn(fetched.body.text, href(target))
           THEN response.status = 200
           ELSE response.status = 400

\* the target occurs after other text, and as the start of a longer URL
C18_Witness ==
    /\ Verified("text/plain")
    /\ response.status = 200
    /\ Len(fetched.body.text) > Len(href(target))
    /\ SubSeq(fetched.body.text, 1, Len(href(target))) # href(target)

\* The verifier has run on a document of a Content-Type other than
\* text/html, application/json and text/plain
CustomVerified ==
    /\ StatusChecked
    /\ ok(fetched)
    /\ ~fetched.bodyNull
    /\ fetched.contentType \notin {"text/html", "application/json", "text/plain"}
    /\ pc # "verify"

\* C19: for any other Content-Type, a missing one included, the answer is 400
\* when no callback is configured; with a callback it is 200 exactly when the
\* callback returns true, and 400 when it returns false or throws.
C19_CustomContentType ==
    CustomVerified =>
        /\ pc = "done"
        /\ IF ~options.checkCustomContentTypeBody
           THEN /\ response = Err(<<"Unsupported content type">>, 400)
                /\ checks = <<>>
           ELSE /\ Len(checks) = 1
                /\ response.status = 200 <=> checks[1] = "true"
                /\ checks[1] \in {"false", "rejects"} => response.status = 400

\* the callback threw for a document without a Content-Type
C19_Witness ==
    /\ pc = "done"
    /\ fetched.contentType = ""
    /\ checks = <<"rejects">>
    /\ response.status = 400

\* C20: with acceptedContentTypes set, a webmention is accepted with 200 only
\* if the Content-Type of the fetched document is one of them.
C20_AcceptedContentTypes ==
    (/\ options.acceptedContentTypes.set
     /\ pc = "done"
     /\ response.status = 200
     /\ ok(fetched))
        => \E i \in 1..Len(options.acceptedContentTypes.val) :
               options.acceptedContentTypes.val[i] = fetched.contentType

-----------------------------------------------------------------------------
\* Properties of the sender (SenderSpec, GetSpec)

hasWebmentionLink(res) == \E i \in 1..Len(res.link) : res.link[i].rel = "webmention"

\* The HEAD request was answered and its answer names no endpoint
HeadYieldsNoEndpoint ==
    /\ spc \notin {"idle", "start"}
    /\ ~net.head.failed
    /\ ~ok(net.head) \/ ~hasWebmentionLink(net.head)

\* The endpoint the target's page names: the first rel="webmention" link of
\* the Link header, else the first <link> or <a> element with rel="webmention"
pageNamesEndpoint(res) ==
    /\ ~res.failed
    /\ ok(res)
    /\ \/ hasWebmentionLink(res)
       \/ /\ ~res.bodyNull
          /\ res.contentType \in {"text/html", "text/html; charset=utf-8"}
          /\ \E i \in 1..Len(res.tags) : isWebmentionElement(res.tags[i])

pageEndpoint(res) ==
    IF hasWebmentionLink(res)
    THEN LET i == CHOOSE j \in 1..Len(res.link) :
                     /\ res.link[j].rel = "webmention"
                     /\ \A k \in 1..(j - 1) : res.link[k].rel # "webmention"
         IN res.link[i].ref
    ELSE LET i == CHOOSE j \in 1..Len(res.tags) :
                     /\ isWebmentionElement(res.tags[j])
                     /\ \A k \in 1..(j - 1) : ~isWebmentionElement(res.tags[k])
         IN res.tags[i].ref

Requested(method) ==
    \E i \in 1..Len(sent) : sent[i].method = method /\ sent[i].url = RawText(call.target)

\* C2: when the HEAD request yields no endpoint, a GET request to the target
\* follows, and an endpoint found by that GET is the result of discovery.
C2_GetAfterHead ==
    HeadYieldsNoEndpoint =>
        /\ Requested("GET")
        /\ pageNamesEndpoint(net.get)
              => discovery = applyPolicy(Discovered(pageEndpoint(net.get)),
                                         call.target, sopts)

\* C3: a GET response that is OK, has no rel="webmention" Link header and is
\* an HTML document with a <link> or <a> element of rel="webmention" makes
\* discovery succeed with the href of the first such element, resolved
\* against the target URL.
C3_EndpointFromHTML ==
    (/\ spc \notin {"idle", "get"}
     /\ crossOriginPolicy(sopts) = "cross-origin"
     /\ pageNamesEndpoint(net.get)
     /\ ~hasWebmentionLink(net.get))
        => /\ discovery.tag = "Discovered"
           /\ discovery.endpoint
                  = AbsRef(hrefRaw(resolveURL(pageEndpoint(net.get), call.target)))

Posted == \E i \in 1..Len(sent) : sent[i].method = "POST"

\* C4: 201 with a Location header gives Accepted with that location, every
\* other 2xx response gives Accepted without a location, every other status
\* gives Error with the status as its code.
C4_ResponseMapping ==
    (spc = "done" /\ Posted /\ ~net.post.failed) =>
        IF net.post.status = 201 /\ net.post.location # <<>>
        THEN result = Accepted(net.post.location)
        ELSE IF ok(net.post)
        THEN result = Accepted(<<>>)
        ELSE result.tag = "Error" /\ result.code = net.post.status

\* host is site, or a subdomain of it
hostWithin(host, site) ==
    \/ host = site
    \/ /\ Len(host) > Len(site)
       /\ SubSeq(host, Len(host) - Len(site), Len(host)) = <<".">> \o site

\* The endpoint the HEAD response names, resolved against the target
HeadEndpoint == resolveURL(tryHeadRequest(net.head).endpoint, call.target)

\* Discovery got an endpoint from the HEAD response and it is not exempted
\* by allowedOrigins
PolicyApplies(policy) ==
    /\ spc \notin {"idle", "start"}
    /\ crossOriginPolicy(sopts) = policy
    /\ tryHeadRequest(net.head).tag = "Discovered"
    /\ tryHeadRequest(net.head).endpoint.k # "bad"
    /\ ~\E origin \in allowedOrigins(sopts) :
           /\ origin.protocol = HeadEndpoint.protocol
           /\ URLhost(origin) = URLhost(HeadEndpoint)

\* C5: under "same-site", with equal protocols, the endpoint is accepted if
\* and only if its host is the target's host or a subdomain of it.
C5_SameSite ==
    (/\ PolicyApplies("same-site")
     /\ HeadEndpoint.protocol = ParseRaw(call.target).protocol)
        => (discovery.tag = "Discovered"
               <=> hostWithin(URLhost(HeadEndpoint), URLhost(ParseRaw(call.target))))

\* C6: the POST is sent only after discovery returned an endpoint; a discovery
\* error is returned with its message and code, and nothing is posted.
C6_NoPostWithoutEndpoint ==
    /\ Posted => discovery.tag = "Discovered"
    /\ (spc = "done" /\ discovery.tag = "Error")
           => /\ result.tag = "Error"
              /\ result.message = discovery.message
              /\ result.code = discovery.code

\* a policy violation came back from sendWebmention as it was
C6_Witness ==
    /\ spc = "done"
    /\ ~Posted
    /\ discovery.tag = "Error"
    /\ Len(discovery.message) > 2
    /\ discovery.message[2] = " policy violation ("
    /\ result = ResponseError(discovery.message, 500)

-----------------------------------------------------------------------------
\* Properties of the extension registry and of the domain matcher (LibSpec)

\* parseExtension has returned
ParsedNow == registry.pc \in {"reparse", "done"}

\* The JSON value the payload field decodes to
Decoded == JSONparse(registry.mention.payload)

\* The payload satisfies the schema of like and comment: absent, null or {}
SchemaValid == Decoded.ok /\ Decoded.val \in {JNull, JObj(<<>>)}

\* C21: for a registered definition, a payload that satisfies the schema
\* gives a webmention of the definition's kind with the validated payload, and
\* one that violates it gives the 400 error "Payload is not valid".
C21_RegisteredDefinition ==
    (/\ ParsedNow
     /\ Decoded.ok
     /\ registry.mention.definition \in {Field(LikeDefinition), Field(CommentDefinition)})
        => IF SchemaValid
           THEN /\ registry.parsed.tag = "ok"
                /\ registry.parsed.kind =
                       (IF registry.mention.definition.s = LikeDefinition
                        THEN Like ELSE Comment)
                /\ registry.parsed.payload = Decoded.val
                /\ registry.parsed.source = registry.mention.source
                /\ registry.parsed.target = registry.mention.target
                /\ registry.packaged.tag = "ok"
                /\ registry.packaged.definition = registry.mention.definition.s
                /\ registry.packaged.payload = Decoded.val
           ELSE /\ registry.parsed.tag = "err"
                /\ registry.parsed.res = Err(<<"Payload is not valid">>, 400)
                /\ registry.packaged.tag = "err"
                /\ registry.packaged.res = Err(<<"Payload is not valid">>, 400)

\* a like with the payload {"a":1} was turned down
C21_Witness ==
    /\ registry.pc = "done"
    /\ registry.mention.definition = Field(LikeDefinition)
    /\ registry.mention.payload = Field("{\"a\":1}")
    /\ registry.parsed.res = Err(<<"Payload is not valid">>, 400)

\* C22: a non-empty definition that is not registered gives, when unknown
\* extensions are banned, an unsupported-extension error, and otherwise a
\* webmention of kind Unknown with the definition and the decoded payload.
C22_UnregisteredDefinition ==
    (/\ ParsedNow
     /\ Decoded.ok
     /\ registry.mention.definition.k = "str"
     /\ registry.mention.definition.s # "")
        => /\ registry.mention.definition.s \notin {LikeDefinition, CommentDefinition}
                 => /\ registry.parsed.tag = "ok"
                    /\ registry.parsed.kind = Unknown
                    /\ registry.parsed.definition = registry.mention.definition.s
                    /\ registry.parsed.payload = Decoded.val
           /\ registry.mention.definition.s
                    \notin {MentionDefinition, LikeDefinition, CommentDefinition}
                 => IF registry.banUnknownExtensions
                    THEN /\ registry.packaged.tag = "err"
                         /\ registry.packaged.res.status = 400
                    ELSE /\ registry.packaged.tag = "ok"
                         /\ registry.packaged.definition = registry.mention.definition.s
                         /\ registry.packaged.payload = Decoded.val

\* Payload texts that are JSON
JSONTexts == {"null", "{}", "{\"a\":1}", "1"}

\* C23: a payload that is present and is not JSON gives the invalid-JSON
\* error whatever the definition; no definition and no payload give a basic
\* webmention without a payload.
C23_InvalidJSON ==
    ParsedNow =>
        /\ (/\ registry.mention.payload.k = "str"
            /\ registry.mention.payload.s \notin JSONTexts)
               => /\ registry.parsed.tag = "err"
                  /\ registry.parsed.res = Err(<<"Payload is not valid JSON">>, 400)
                  /\ registry.packaged.tag = "err"
                  /\ registry.packaged.res = Err(<<"Payload is not valid JSON">>, 400)
        /\ (/\ registry.mention.payload = NoField
            /\ registry.mention.definition = NoField)
               => /\ registry.parsed.tag = "ok"
                  /\ registry.parsed.kind = Basic
                  /\ registry.parsed.payload = JNull
                  /\ registry.packaged.tag = "ok"
                  /\ registry.packaged.definition = ""
                  /\ registry.packaged.payload = JUndef

\* the payload {bad was turned down for an inherited definition name
C23_Witness ==
    /\ registry.pc = "done"
    /\ registry.mention.definition = Field("constructor")
    /\ registry.mention.payload = Field("{bad")
    /\ registry.parsed.res = Err(<<"Payload is not valid JSON">>, 400)

\* C24: for a registered definition and a payload valid for it,
\* reparseExtension of the parse result succeeds with the definition, the
\* validated payload, and the same source and target.
C24_RoundTrip ==
    (/\ registry.pc = "done"
     /\ registry.mention.definition \in {Field(LikeDefinition), Field(CommentDefinition)}
     /\ SchemaValid)
        => /\ registry.reparsed.tag = "ok"
           /\ registry.reparsed.definition = registry.mention.definition.s
           /\ registry.reparsed.payload = Decoded.val
           /\ registry.reparsed.source = registry.mention.source
           /\ registry.reparsed.target = registry.mention.target

\* a like with the payload {} came back as it was
C24_Witness ==
    /\ registry.pc = "done"
    /\ registry.mention.definition = Field(LikeDefinition)
    /\ registry.mention.payload = Field("{}")
    /\ registry.reparsed.tag = "ok"
    /\ registry.reparsed.definition = LikeDefinition
    /\ registry.reparsed.payload = JObj(<<>>)

\* C25: reparseExtension succeeds on every webmention parseExtension
\* produced, kinds Basic and Unknown included; for kind Unknown it returns
\* the stored definition and payload.
C25_ReparseSucceeds ==
    (registry.pc = "done" /\ registry.parsed.tag = "ok")
        => /\ registry.reparsed.tag = "ok"
           /\ registry.parsed.kind = Unknown
                 => /\ registry.reparsed.definition = registry.parsed.definition
                    /\ registry.reparsed.payload = registry.parsed.payload

\* d matches the glob p as a whole: "*" stands for any sequence of
\* characters, every other character for itself
RECURSIVE globMatch(_, _)
globMatch(p, d) ==
    IF p = <<>> THEN d = <<>>
    ELSE IF Head(p) = "*"
    THEN \E k \in 0..Len(d) : globMatch(Tail(p), SubSeq(d, k + 1, Len(d)))
    ELSE d # <<>> /\ Head(d) = Head(p) /\ globMatch(Tail(p), Tail(d))

\* C26: matchDomain is true exactly when the pattern is the domain, or the
\* lower-cased domain matches the lower-cased pattern as a whole-string glob;
\* "*.b.c" matches "a.b.c" and "x.a.b.c" and not "b.c", "a.*.c" does not match
\* "a.c".
C26_MatchDomain ==
    /\ matcher.pc = "done"
          => matcher.matched
                 = (\/ matcher.pattern = matcher.domain
                    \/ globMatch(toLowerCase(matcher.pattern),
                                 toLowerCase(matcher.domain)))
    /\ matchDomain(<<"*", ".", "b", ".", "c">>, <<"a", ".", "b", ".", "c">>)
    /\ matchDomain(<<"*", ".", "b", ".", "c">>, <<"x", ".", "a", ".", "b", ".", "c">>)
    /\ ~matchDomain(<<"*", ".", "b", ".", "c">>, <<"b", ".", "c">>)
    /\ ~matchDomain(<<"a", ".", "*", ".", "c">>, <<"a", ".", "c">>)

\* "b.c" was tried against "bxc" and did not match: the dot is literal
C26_Witness ==
    /\ matcher.pc = "done"
    /\ matcher.pattern = <<"b", ".", "c">>
    /\ matcher.domain = <<"b", "x", "c">>
    /\ ~matcher.matched

-----------------------------------------------------------------------------
\* Properties of endpoint discovery (SenderSpec)

\* The HEAD request was answered 2xx with a Link header that has a link of
\* rel="webmention"
HeadNamesEndpoint ==
    /\ spc \notin {"idle", "start"}
    /\ ~net.head.failed
    /\ ok(net.head)
    /\ hasWebmentionLink(net.head)

\* C27: of several comma-separated links the first whose rel is "webmention"
\* is the endpoint, also when other links precede it.
C27_FirstWebmentionLink ==
    HeadNamesEndpoint =>
        /\ tryParseWebmentionLinkHeader(net.head) = Discovered(pageEndpoint(net.head))
        /\ discovery = applyPolicy(Discovered(pageEndpoint(net.head)),
                                   call.target, sopts)

\* The message of a violation of a policy
ViolationMessage(policy, violation, expected, found) ==
    <<policy, " policy violation (", violation, "): expected ">>
        \o expected \o <<", found ">> \o found

\* C28: under "same-origin" and "same-site", for an endpoint that is not
\* exempted, a protocol other than the target's is a violation that names
\* "protocol"; under "same-origin" with equal protocols another hostname is a
\* violation that names "host", the policy and both hosts.
C28_PolicyViolations ==
    \A policy \in {"same-origin", "same-site"} :
        PolicyApplies(policy) =>
            LET original == ParseRaw(call.target)
            IN /\ HeadEndpoint.protocol # original.protocol
                     => /\ discovery.tag = "Error"
                        /\ discovery.message =
                               ViolationMessage(policy, "protocol",
                                   <<original.protocol>>, <<HeadEndpoint.protocol>>)
               /\ (/\ policy = "same-origin"
                   /\ HeadEndpoint.protocol = original.protocol
                   /\ HeadEndpoint.hostname # original.hostname)
                     => /\ discovery.tag = "Error"
                        /\ discovery.message =
                               ViolationMessage(policy, "host",
                                   URLhost(original), URLhost(HeadEndpoint))

\* target https://b.c/p, endpoint https://a.b.c/wm under "same-origin"
C28_Witness ==
    /\ PolicyApplies("same-origin")
    /\ call.target = TargetBC
    /\ HeadEndpoint.hostname = HostABC
    /\ discovery.tag = "Error"
    /\ discovery.message[3] = "host"

\* The origins the options exempt, parsed
ExemptOrigins ==
    IF sopts.allowedOrigins.set
    THEN {ParseRaw(Raw("https", HostXC, "", <<>>)), ParseRaw(Raw("http", HostBC, "", <<>>))}
    ELSE {ParseRaw(RawWebmentionIO)}

\* The endpoint of the HEAD response has the protocol, host and port of an
\* exempted origin
Exempted ==
    \E origin \in ExemptOrigins :
        /\ origin.protocol = HeadEndpoint.protocol
        /\ origin.hostname = HeadEndpoint.hostname
        /\ origin.port = HeadEndpoint.port

\* Discovery got a well-formed endpoint from the HEAD response
HeadEndpointFound ==
    /\ spc \notin {"idle", "start"}
    /\ tryHeadRequest(net.head).tag = "Discovered"
    /\ tryHeadRequest(net.head).endpoint.k # "bad"

\* C29: under "cross-origin" every endpoint is accepted; under "same-origin"
\* and "same-site" an endpoint with the protocol, host and port of an
\* allowedOrigins entry is accepted whatever the target, before the protocol
\* and host checks.
C29_Exemptions ==
    HeadEndpointFound =>
        /\ crossOriginPolicy(sopts) = "cross-origin"
              => discovery = Discovered(AbsRef(hrefRaw(HeadEndpoint)))
        /\ Exempted => discovery = Discovered(AbsRef(hrefRaw(HeadEndpoint)))

\* http://b.c/wm is exempted for an https: target under "same-origin"
C29_Witness ==
    /\ HeadEndpointFound
    /\ crossOriginPolicy(sopts) = "same-origin"
    /\ Exempted
    /\ HeadEndpoint.protocol = "http:"
    /\ ParseRaw(call.target).protocol = "https:"
    /\ discovery.tag = "Discovered"

\* C30: under "same-site" an endpoint with the protocol and hostname of the
\* target and another port is accepted.
C30_SameSitePort ==
    (/\ PolicyApplies("same-site")
     /\ HeadEndpoint.protocol = ParseRaw(call.target).protocol
     /\ HeadEndpoint.hostname = ParseRaw(call.target).hostname
     /\ HeadEndpoint.port # ParseRaw(call.target).port)
        => discovery.tag = "Discovered"

-----------------------------------------------------------------------------
\* Properties of the store (StorageSpec)

\* Row r is the row of the (source, target) pair of webmention w
OfPair(r, w) == r.source = w.source /\ r.target = w.target

\* C31: at most one row exists for each (source, target) pair; create on a
\* stored pair does not fail and adds no row; delete removes the row of its
\* pair and nothing else.
C31_OneRowPerPair ==
    /\ [](\A r1, r2 \in webmentions : OfPair(r1, r2) => r1 = r2)
    /\ [][storage.pc = "called" =>
            LET w == storage.webmention
            IN /\ storage.op = "create" =>
                     /\ storage'.outcome = "ran"
                     /\ Cardinality({r \in webmentions' : OfPair(r, w)}) = 1
                     /\ (\E r \in webmentions : OfPair(r, w))
                           => Cardinality(webmentions') = Cardinality(webmentions)
               /\ storage.op = "delete" =>
                     /\ storage'.outcome = "ran"
                     /\ webmentions' = {r \in webmentions : ~OfPair(r, w)}]_vars

\* create returned for a pair that was stored at an earlier time, next to the
\* row of another pair
C31_Witness ==
    /\ storage.pc = "returned"
    /\ storage.op = "create"
    /\ storage.outcome = "ran"
    /\ \E r \in webmentions : OfPair(r, storage.webmention) /\ r.updated_at > r.created_at
    /\ Cardinality(webmentions) = 2

\* C37: create on a stored pair sets that row's updated_at and changes
\* nothing else: not the row's definition, payload, created_at or id, and no
\* other row.
C37_CreateFrame ==
    [][(/\ storage.pc = "called"
        /\ storage.op = "create"
        /\ \E r \in webmentions : OfPair(r, storage.webmention))
          => webmentions' =
                {IF OfPair(r, storage.webmention)
                 THEN [r EXCEPT !.updated_at = clock] ELSE r : r \in webmentions}]_vars

\* create returned for a stored pair with a definition and a payload the row
\* does not have
C37_Witness ==
    /\ storage.pc = "returned"
    /\ storage.op = "create"
    /\ storage.webmention.definition = Field(LikeDefinition)
    /\ \E r \in webmentions :
          /\ OfPair(r, storage.webmention)
          /\ r.definition = NULL
          /\ r.payload = NULL
          /\ r.updated_at > r.created_at
    /\ \E r \in webmentions : ~OfPair(r, storage.webmention)

-----------------------------------------------------------------------------
\* Properties of concurrent requests (ConcurrentSpec)

\* The invocations: the running one and the suspended one
Invocations ==
    {Locals(request, pc, mention, source, target, fetched, response), parked}

\* C32: whatever the interleaving, the response of each request is the one
\* the receiver gives to that request alone, with the outcome of its own
\* source fetch.
C32_Independent ==
    \A inv \in Invocations :
        inv.pc \in {"done", "threw", "stuck"} =>
            \E readable \in BOOLEAN : \E check \in {"true", "false", "rejects"} :
                receiver(options, inv.request, readable, inv.fetched, check)
                    = [pc |-> inv.pc, response |-> inv.response]

\* Two requests with different sources, both answered, one accepted and one
\* refused; the one that called fetch first was answered last
C32_Witness ==
    /\ pc = "done"
    /\ parked.pc = "done"
    /\ Len(fetches) = 2
    /\ fetches[1].url = href(source)
    /\ href(source) # href(parked.source)
    /\ response.status = 200
    /\ parked.response.status = 400

-----------------------------------------------------------------------------
\* Properties of the results of sendWebmention (SenderSpec)

\* C33: whatever the HEAD, GET and POST requests come to, a network failure
\* included, sendWebmention ends with Accepted or Error and raises nothing.
C33_NeverRaises ==
    spc \notin {"start", "discovered"} => result.tag \in {"Accepted", "Error"}

-----------------------------------------------------------------------------
\* Properties of the responses of the receiver (Spec)

\* The fetched document mentions the target, by the rule of its content type
Mentions ==
    CASE fetched.contentType = "text/html" ->
            \E i \in 1..Len(fetched.body.tags) :
                Marked(i) /\ (AnchorToTarget(i) \/ MediaOfTarget(i))
      [] fetched.contentType = "application/json" ->
            hasStringLeaf(fetched.body.json, href(target))
      [] fetched.contentType = "text/plain" ->
            occursIn(fetched.body.text, href(target))
      [] OTHER ->
            /\ options.checkCustomContentTypeBody
            /\ checks # <<>>
            /\ checks[Len(checks)] = "true"

\* C34: a response has status 200, 405, 400 or 500; 405 only for a request
\* that is not POST, 500 only when the fetch of the source failed on the
\* network, 200 only when the source answered 410 or its content was
\* verified to mention the target.
C34_Statuses ==
    response # NoResponse =>
        /\ response.status \in {200, 405, 400, 500}
        /\ response.status = 405 => request.method # "POST"
        /\ response.status = 500 => Len(fetches) = 1 /\ fetched = NoFetched
        /\ response.status = 200 =>
              \/ fetched.status = 410
              \/ /\ ok(fetched)
                 /\ ~fetched.bodyNull
                 /\ ~fetched.body.broken
                 /\ Mentions

\* The fetch of the source failed on the network and the answer is 500
C34_Witness ==
    /\ pc = "done"
    /\ Len(fetches) = 1
    /\ fetched = NoFetched
    /\ response.status = 500

-----------------------------------------------------------------------------
\* Progress of the receiver (LiveSpec)

ParseErrors ==
    {Err(<<"Error parsing HTML body">>, 400), Err(<<"Error parsing JSON body">>, 400),
     Err(<<"Error parsing plain text body">>, 400)}

\* C35: every request is answered at some time (the handler that raises on a
\* definition inherited from Object.prototype, C22, set aside); a text/html,
\* application/json or text/plain body that cannot be read or parsed is
\* answered 400 with the parse error of its content type.
C35_EventuallyResponds ==
    /\ <>(response # NoResponse \/ pc = "threw")
    /\ [](( /\ pc = "verify"
            /\ fetched.contentType \in {"text/html", "application/json", "text/plain"}
            /\ fetched.body.broken) => <>(response \in ParseErrors))

-----------------------------------------------------------------------------
\* Properties of the same-origin policy (SenderSpec)

\* C36: under "same-origin" an endpoint with the protocol and hostname of the
\* target and another port, not exempted, is a violation that names "port"
\* and carries the two ports.
C36_PortViolation ==
    (/\ PolicyApplies("same-origin")
     /\ HeadEndpoint.protocol = ParseRaw(call.target).protocol
     /\ HeadEndpoint.hostname = ParseRaw(call.target).hostname
     /\ HeadEndpoint.port # ParseRaw(call.target).port)
        => /\ discovery.tag = "Error"
           /\ discovery.message =
                  ViolationMessage("same-origin", "port",
                      <<ParseRaw(call.target).port>>, <<HeadEndpoint.port>>)

====
